---------------------------- MODULE Spec2Model ----------------------------
(***************************************************************************)
(* A model of the pydantic-schemaforms demo server:                        *)
(*   - the flat-key parser of examples/shared_models.py                    *)
(*     (parse_nested_form_data, convert_form_value, handle_form_submission)*)
(*   - the JSON and HTML form routes of src/main.py                        *)
(*   - the dashboard token check of src/main.py                            *)
(*   - the SQLite analytics recorder of src/analytics.py, its reverse-     *)
(*     geocoding enrichment, workers sharing its database, and init_db     *)
(*   - main() of scripts/smoke_live_server.py                              *)
(* Each part has a specification of its own over the shared variables.     *)
(***************************************************************************)
EXTENDS Integers, Sequences, FiniteSets, TLC

VARIABLES
    \* ---- parse_nested_form_data (the for loop over form_data.items())
    form_data,      \* the flat input: a sequence of <<key, value>> pairs
    parse_pos,      \* index of the next item the loop will take
    result,         \* the nested structure built so far
    parse_raised,   \* TRUE when an iteration raised
    \* ---- the form routes of the server
    examples_ok,    \* whether "from examples.shared_models import ..." succeeds
    http_req,       \* the request the server handled last
    http_resp,      \* the response it gave
    \* ---- the analytics log (src/src/analytics.py)
    db,             \* the SQLite database: request_log, error_log, meta
    now,            \* the clock, as _utcnow() reads it
    env,            \* ANALYTICS_RETENTION_DAYS and ANALYTICS_MAX_ROWS
    last_call,      \* the last record_request or record_error call and how it went
    calls,          \* calls made so far
    ticks,          \* advances of the clock so far
    \* ---- the dashboard endpoints
    dash_env,       \* DASHBOARD_TOKEN and DASHBOARD_COOKIE_TTL_SECONDS
    dash_req,       \* the dashboard request served
    dash_resp,      \* its response
    \* ---- the reverse-geocoding enrichment (src/src/analytics.py)
    geo,            \* the environment, the clock, _geoip_cache and the last call
    \* ---- main() of scripts/smoke_live_server.py
    smoke,          \* where main is, its failures list and the exit status
    \* ---- worker processes that share the analytics database
    pool,           \* where each worker is in its call, and the _prune runs so far
    \* ---- init_db at the startup of each worker
    boot            \* where each worker is in init_db, and how its last attempt ended

parseVars == <<form_data, parse_pos, result, parse_raised>>
httpVars == <<examples_ok, http_req, http_resp>>
analyticsVars == <<db, now, env, last_call, calls, ticks>>
dashVars == <<dash_env, dash_req, dash_resp>>
restVars == <<geo, smoke, pool, boot>>
vars == <<parseVars, httpVars, analyticsVars, dashVars, restVars>>

(***************************************************************************)
(* Bounds of the model.                                                    *)
(***************************************************************************)
MaxKeys == 2            \* most items of a form_data drawn by InitParse

(***************************************************************************)
(* Values.  A Python value is a record [k, v]: k is its type and v what it *)
(* holds.  A dict holds a function from keys to values, a list a sequence. *)
(* Dict keys and path tokens are records too: a name token carries the     *)
(* characters of the name, an index token the integer.                     *)
(***************************************************************************)
Str(s) == [k |-> "str", v |-> s]
Bool(b) == [k |-> "bool", v |-> b]
None == [k |-> "none", v |-> 0]
Dict(f) == [k |-> "dict", v |-> f]
List(s) == [k |-> "list", v |-> s]
Raise(e) == [k |-> "raise", v |-> e]
EmptyDict == Dict(<<>>)

NameTok(s) == [i |-> -1, s |-> s]
IndexTok(n) == [i |-> n, s |-> <<>>]
IsIndex(t) == t.i >= 0

DictSet(d, key, val) ==
    Dict([x \in (DOMAIN d.v) \cup {key} |-> IF x = key THEN val ELSE d.v[x]])

(***************************************************************************)
(* tokenize_path: re.findall(r'([^.\[\]]+)|\[(\d+)\]', path).  A key is a  *)
(* sequence of characters; a word of letters is written as one character   *)
(* ("pets"), which the pattern treats like any other character that is not *)
(* a dot or a bracket.                                                     *)
(***************************************************************************)
Special == {".", "[", "]"}
DigitVal == [c \in {"0", "1", "2"} |-> CASE c = "0" -> 0 [] c = "1" -> 1 [] c = "2" -> 2]

RECURSIVE NameRunEnd(_, _)
NameRunEnd(path, i) ==
    IF i <= Len(path) /\ path[i] \notin Special THEN NameRunEnd(path, i + 1) ELSE i

RECURSIVE DigitRunEnd(_, _)
DigitRunEnd(path, i) ==
    IF i <= Len(path) /\ path[i] \in DOMAIN DigitVal THEN DigitRunEnd(path, i + 1) ELSE i

\* int(index_token)
RECURSIVE ToInt(_)
ToInt(digits) ==
    IF digits = <<>> THEN 0
    ELSE 10 * ToInt(SubSeq(digits, 1, Len(digits) - 1)) + DigitVal[digits[Len(digits)]]

RECURSIVE tokenize_from(_, _)
tokenize_from(path, i) ==
    IF i > Len(path) THEN <<>>
    ELSE IF path[i] \notin Special
    THEN LET j == NameRunEnd(path, i)
         IN  <<NameTok(SubSeq(path, i, j - 1))>> \o tokenize_from(path, j)
    ELSE IF path[i] = "["
    THEN LET j == DigitRunEnd(path, i + 1)
         IN  IF j > i + 1 /\ j <= Len(path) /\ path[j] = "]"
             THEN <<IndexTok(ToInt(SubSeq(path, i + 1, j - 1)))>> \o tokenize_from(path, j + 1)
             ELSE tokenize_from(path, i + 1)
    ELSE tokenize_from(path, i + 1)

tokenize_path(path) == tokenize_from(path, 1)

(***************************************************************************)
(* convert_form_value: the strings 'true', 'on', 'yes', '1' become True    *)
(* and 'false', 'off', 'no', '0' become False, whatever their case; any    *)
(* other value is returned as it is.                                       *)
(***************************************************************************)
Lower(s) ==
    CASE s = "TRUE" -> "true"
      [] s = "On" -> "on"
      [] s = "FALSE" -> "false"
      [] s = "No" -> "no"
      [] OTHER -> s

convert_form_value(value) ==
    IF value.k # "str" THEN value      \* not isinstance(value, str)
    ELSE IF Lower(value.v) = "true" THEN Bool(TRUE)
    ELSE IF Lower(value.v) = "false" THEN Bool(FALSE)
    ELSE IF Lower(value.v) \in {"on", "yes", "1"} THEN Bool(TRUE)
    ELSE IF Lower(value.v) \in {"off", "no", "0"} THEN Bool(FALSE)
    ELSE value

(***************************************************************************)
(* assign_nested: walks the tokens from the container down, creating the   *)
(* missing containers, and stores the value at the last token.  The Python *)
(* code mutates in place; here the updated container is returned, or       *)
(* Raise(e) when a step raises e.                                          *)
(***************************************************************************)
\* [] if isinstance(next_token, int) else {}
fresh_container_dict(next_token) == EmptyDict
fresh_container(next_token) == IF IsIndex(next_token) THEN List(<<>>) ELSE EmptyDict

\* while len(current) <= token: current.append(None)
RECURSIVE PadList(_, _)
PadList(s, token) == IF Len(s) <= token THEN PadList(Append(s, None), token) ELSE s

RECURSIVE assign_nested(_, _, _)
assign_nested(current, tokens, value) ==
    LET token == Head(tokens)
        is_last == Len(tokens) = 1
        fresh == fresh_container(tokens[2])
    IN
    IF ~IsIndex(token)
    THEN \* isinstance(token, str)
         IF current.k # "dict"
         THEN Raise("TypeError")     \* a list, a str or a bool indexed by a str
         ELSE IF is_last
         THEN DictSet(current, token, value)
         ELSE LET child == IF token \notin DOMAIN current.v \/ current.v[token].k = "none"
                           THEN fresh
                           ELSE current.v[token]
                  sub == assign_nested(child, Tail(tokens), value)
              IN  IF sub.k = "raise" THEN sub ELSE DictSet(current, token, sub)
    ELSE \* token is a list index
         IF current.k = "list"
         THEN LET padded == PadList(current.v, token.i)
                  at == token.i + 1
              IN  IF is_last
                  THEN List([padded EXCEPT ![at] = value])
                  ELSE LET child == IF padded[at].k = "none" THEN fresh ELSE padded[at]
                           sub == assign_nested(child, Tail(tokens), value)
                       IN  IF sub.k = "raise" THEN sub
                           ELSE List([padded EXCEPT ![at] = sub])
         ELSE IF current.k = "dict"
         THEN IF Cardinality(DOMAIN current.v) <= token.i
              THEN Raise("AttributeError")      \* dict has no append
              ELSE IF is_last
              THEN DictSet(current, token, value)   \* an int key in a dict
              ELSE IF token \notin DOMAIN current.v
              THEN Raise("KeyError")
              ELSE LET child == IF current.v[token].k = "none" THEN fresh
                                ELSE current.v[token]
                       sub == assign_nested(child, Tail(tokens), value)
                   IN  IF sub.k = "raise" THEN sub ELSE DictSet(current, token, sub)
         ELSE Raise("TypeError")     \* len() of a bool, append or item assignment on a str

\* One iteration of "for key, value in form_data.items()".
parse_item(res, key, value) ==
    LET converted_value == convert_form_value(value)
        tokens == tokenize_path(key)
    IN  IF tokens = <<>>
        THEN DictSet(res, NameTok(key), converted_value)
        ELSE IF Len(tokens) = 1 /\ ~IsIndex(tokens[1])
        THEN DictSet(res, tokens[1], converted_value)
        ELSE assign_nested(res, tokens, converted_value)

\* parse_nested_form_data on a mapping given as its items in order.
RECURSIVE parse_items(_, _)
\* The items after one whose assignment returned r: a raise ends the loop.
parse_rest(r, items) == IF r.k = "raise" THEN r ELSE parse_items(r, items)
parse_items(res, items) ==
    IF items = <<>> THEN res
    ELSE parse_rest(parse_item(res, Head(items)[1], Head(items)[2]), Tail(items))

(***************************************************************************)
(* src/src/analytics.py: the SQLite log of requests and errors.            *)
(*                                                                         *)
(* The clock counts minutes; us tells whether the microsecond of the       *)
(* reading is zero.  _iso writes a reading as text: the date and time to   *)
(* the second in fixed width (stamp), then ".ffffff" unless the            *)
(* microsecond is zero, then "+00:00".  SQLite compares ts as text.        *)
(***************************************************************************)
Day == 24 * 60

_iso(t) == [stamp |-> t.m, frac |-> IF t.us = 0 THEN "" ELSE ".000001"]

\* datetime.fromisoformat of a text _iso wrote
fromisoformat(text) == [m |-> text.stamp, us |-> IF text.frac = "" THEN 0 ELSE 1]


\* a < b as SQLite compares two TEXT values
TextLess(a, b) ==
    \/ a.stamp < b.stamp
    \/ /\ a.stamp = b.stamp
       \* the character after the seconds: "+" (code point 43) or "." (46)
       /\ (IF a.frac = "" THEN 43 ELSE 46) < (IF b.frac = "" THEN 43 ELSE 46)

\* t - timedelta(minutes=d)
Earlier(t, d) == [t EXCEPT !.m = t.m - d]

(***************************************************************************)
(* The environment.  A variable is unset, or holds text: a decimal number  *)
(* or something int() rejects.                                             *)
(***************************************************************************)
Unset == [set |-> FALSE, int |-> FALSE, n |-> 0]
Junk == [set |-> TRUE, int |-> FALSE, n |-> 0]
Num(n) == [set |-> TRUE, int |-> TRUE, n |-> n]

Max(a, b) == IF a >= b THEN a ELSE b

_parse_int(value, default) ==
    IF ~value.set THEN default
    ELSE IF value.int THEN value.n
    ELSE default

get_retention_days(e) == Max(1, _parse_int(e.ANALYTICS_RETENTION_DAYS, 7))

get_max_rows(e) == Max(1000, _parse_int(e.ANALYTICS_MAX_ROWS, 200000))

(***************************************************************************)
(* The database.  A table is the sequence of its rows in id order, rows    *)
(* with consecutive ids and the same ts kept as one run [lo, hi, ts].      *)
(* request_seq and error_seq are the AUTOINCREMENT counters; last_prune_ts *)
(* is the meta row of that key, NoRow when the key is absent.              *)
(***************************************************************************)
NoRow == [stamp |-> -1, frac |-> "no row"]

FreshDb ==
    [request_log |-> <<>>, error_log |-> <<>>, last_prune_ts |-> NoRow,
     request_seq |-> 0, error_seq |-> 0]

RECURSIVE Count(_)
Count(table) ==
    IF table = <<>> THEN 0
    ELSE (Head(table).hi - Head(table).lo + 1) + Count(Tail(table))

\* DELETE FROM table WHERE ts < cutoff_iso
RECURSIVE DeleteOlder(_, _)
DeleteOlder(table, cutoff_iso) ==
    IF table = <<>> THEN <<>>
    ELSE IF TextLess(Head(table).ts, cutoff_iso)
    THEN DeleteOlder(Tail(table), cutoff_iso)
    ELSE <<Head(table)>> \o DeleteOlder(Tail(table), cutoff_iso)

\* DELETE FROM table WHERE id IN (SELECT id FROM table ORDER BY id ASC LIMIT to_delete)
RECURSIVE DeleteOldest(_, _)
DeleteOldest(table, to_delete) ==
    IF to_delete <= 0 \/ table = <<>> THEN table
    ELSE IF Head(table).hi - Head(table).lo + 1 <= to_delete
    THEN DeleteOldest(Tail(table), to_delete - (Head(table).hi - Head(table).lo + 1))
    ELSE <<[Head(table) EXCEPT !.lo = Head(table).lo + to_delete]>> \o Tail(table)

\* one row more than the excess
Trim_one_more(table, count, max_rows) ==
    IF count > max_rows THEN DeleteOldest(table, count - max_rows + 1) ELSE table

\* "if row and int(row['c']) > max_rows": trim the oldest rows
Trim(table, count, max_rows) ==
    IF count > max_rows THEN DeleteOldest(table, count - max_rows) ELSE table

\* n rows inserted one after another with the same ts
InsertRows(table, seq, n, ts) ==
    IF table # <<>> /\ table[Len(table)].ts = ts /\ table[Len(table)].hi = seq
    THEN [table EXCEPT ![Len(table)].hi = seq + n]
    ELSE Append(table, [lo |-> seq + 1, hi |-> seq + n, ts |-> ts])

_should_prune(d, t) ==
    IF d.last_prune_ts = NoRow THEN TRUE
    ELSE \/ t.m - fromisoformat(d.last_prune_ts).m > 10
         \/ /\ t.m - fromisoformat(d.last_prune_ts).m = 10
            /\ t.us > fromisoformat(d.last_prune_ts).us

\* cutoff_iso of _prune
cutoff_iso(t, e) == _iso(Earlier(t, get_retention_days(e) * Day))

(***************************************************************************)
(* The statements of a call, in order.  The connection is in autocommit    *)
(* (isolation_level=None): each statement that ran stays done when a       *)
(* later one fails.                                                        *)
(***************************************************************************)
_prune_statements_no_trim ==
    <<"DELETE request_log WHERE ts <", "DELETE error_log WHERE ts <">>
_prune_statements_requests_only ==
    <<"DELETE request_log WHERE ts <", "trim request_log", "trim error_log">>
_prune_statements ==
    <<"DELETE request_log WHERE ts <", "DELETE error_log WHERE ts <",
      "trim request_log", "trim error_log">>

Execute(d, statement, t, e, n) ==
    CASE statement = "DELETE request_log WHERE ts <" ->
            [d EXCEPT !.request_log = DeleteOlder(d.request_log, cutoff_iso(t, e))]
      [] statement = "DELETE error_log WHERE ts <" ->
            [d EXCEPT !.error_log = DeleteOlder(d.error_log, cutoff_iso(t, e))]
      [] statement = "trim request_log" ->
            [d EXCEPT !.request_log =
                Trim(d.request_log, Count(d.request_log), get_max_rows(e))]
      [] statement = "trim error_log" ->
            [d EXCEPT !.error_log =
                Trim(d.error_log, Count(d.error_log), get_max_rows(e))]
      [] statement = "_set_last_prune" ->
            [d EXCEPT !.last_prune_ts = _iso(t)]
      [] statement = "INSERT request_log" ->
            [d EXCEPT !.request_log = InsertRows(d.request_log, d.request_seq, n, _iso(t)),
                      !.request_seq = d.request_seq + n]
      [] statement = "INSERT error_log" ->
            [d EXCEPT !.error_log = InsertRows(d.error_log, d.error_seq, n, _iso(t)),
                      !.error_seq = d.error_seq + n]
      [] OTHER -> d       \* geoip_enrich, _connect, _should_prune write nothing

\* The statements run in order until the one that fails.
RECURSIVE Run(_, _, _, _, _, _)
Run(d, statements, failing, t, e, n) ==
    IF statements = <<>> \/ Head(statements) = failing THEN d
    ELSE Run(Execute(d, Head(statements), t, e, n), Tail(statements), failing, t, e, n)

\* _prune(conn) run to its end
_prune(d, t, e) == Run(d, _prune_statements, "none", t, e, 0)

\* "if _should_prune(conn): _prune(conn); _set_last_prune(conn)" and the INSERT
Statements(d, t, insert) ==
    <<"_connect", "_should_prune">>
    \o (IF _should_prune(d, t) THEN _prune_statements \o <<"_set_last_prune">> ELSE <<>>)
    \o <<insert>>

record_request_statements(d, t) ==
    <<"geoip_enrich">> \o Statements(d, t, "INSERT request_log")
record_error_statements(d, t) == Statements(d, t, "INSERT error_log")

\* What a failing statement raises.
Raises(statement) ==
    CASE statement = "none" -> {"none"}
      [] statement = "geoip_enrich" -> {"ValueError"}
      [] statement \in {"INSERT request_log", "INSERT error_log"} ->
            {"sqlite3.OperationalError", "ValueError"}     \* int(status_code)
      [] OTHER -> {"sqlite3.OperationalError"}

\* "except Exception:" catches the exception
except_sqlite3_Error(exception) == exception = "sqlite3.OperationalError"
except_Exception(exception) ==
    exception \in {"sqlite3.OperationalError", "ValueError", "TypeError", "OSError"}

Range(s) == {s[i] : i \in 1..Len(s)}

\* The prune of the call ran to its end.
Pruned(d, t, failing) ==
    /\ _should_prune(d, t)
    /\ failing \notin {"geoip_enrich", "_connect", "_should_prune"} \cup Range(_prune_statements)

NoCall ==
    [fn |-> "", failing |-> "none", exception |-> "none", outcome |-> "",
     pruned |-> FALSE, at |-> [m |-> 0, us |-> 0],
     before |-> FreshDb, after_prune |-> FreshDb]

Call(fn, d, t, e, failing, exception) ==
    [fn |-> fn, failing |-> failing, exception |-> exception,
     outcome |-> IF exception = "none" \/ except_Exception(exception)
                 THEN "returned" ELSE "raised",
     pruned |-> Pruned(d, t, failing), at |-> t,
     before |-> d,
     after_prune |-> IF Pruned(d, t, failing) THEN _prune(d, t, e) ELSE d]

(***************************************************************************)
(* The dashboard token of src/main.py.  NONE is Python's None; Strip is    *)
(* str.strip on the texts the requests and the environment carry.          *)
(***************************************************************************)
NONE == "<None>"

Strip(s) ==
    CASE s = " tok " -> "tok"
      [] s = "  " -> ""
      [] OTHER -> s

\* (value or "").strip()
OrEmptyStrip(value) == IF value = NONE THEN "" ELSE Strip(value)

_dashboard_token_required(e) ==
    IF e.DASHBOARD_TOKEN = NONE THEN NONE
    ELSE IF Strip(e.DASHBOARD_TOKEN) = "" THEN NONE      \* token or None
    ELSE Strip(e.DASHBOARD_TOKEN)

_dashboard_cookie_name == "schemaforms_dashboard_token"

_dashboard_cookie_ttl_seconds(e) ==
    IF ~e.DASHBOARD_COOKIE_TTL_SECONDS.set THEN 30 * 60
    ELSE IF e.DASHBOARD_COOKIE_TTL_SECONDS.int
    THEN Max(60, e.DASHBOARD_COOKIE_TTL_SECONDS.n)
    ELSE 30 * 60

\* request.query_params.get(key): the query is the sequence of its
\* <<key, value>> pairs, every key once.
RECURSIVE QueryGet(_, _)
QueryGet(query, key) ==
    IF query = <<>> THEN NONE
    ELSE IF Head(query)[1] = key THEN Head(query)[2]
    ELSE QueryGet(Tail(query), key)

_token_from_request(req) ==
    IF OrEmptyStrip(req.header) # "" THEN OrEmptyStrip(req.header)
    ELSE OrEmptyStrip(QueryGet(req.query, "token"))

NoCookie == [key |-> "", value |-> "", max_age |-> 0, httponly |-> FALSE]

\* The cookie _maybe_set_dashboard_cookie_from_token sets on the response.
_maybe_set_dashboard_cookie_from_token(req, e) ==
    IF _dashboard_token_required(e) = NONE THEN NoCookie
    ELSE IF _token_from_request(req) = "" THEN NoCookie
    ELSE IF _token_from_request(req) # _dashboard_token_required(e) THEN NoCookie
    ELSE [key |-> _dashboard_cookie_name, value |-> _dashboard_token_required(e),
          max_age |-> _dashboard_cookie_ttl_seconds(e), httponly |-> TRUE]

\* TRUE when _require_dashboard_auth returns, FALSE when it raises 401.
_require_dashboard_auth(req, e) ==
    IF _dashboard_token_required(e) = NONE THEN TRUE
    ELSE IF _token_from_request(req) = _dashboard_token_required(e) THEN TRUE
    ELSE OrEmptyStrip(req.cookie) = _dashboard_token_required(e)

\* params = dict(request.query_params); params.pop("token", None); and the
\* pairs "if v is not None and v != ''"
RECURSIVE clean_params(_)
clean_params(query) ==
    IF query = <<>> THEN <<>>
    ELSE IF Head(query)[1] = "token" \/ Head(query)[2] = ""
    THEN clean_params(Tail(query))
    ELSE <<Head(query)>> \o clean_params(Tail(query))

\* A text as the pieces a URL is cut into at "&" and "=".  The server hands
\* the handler the decoded value of a parameter, so "1%26token%3Dtok" in
\* the request is the value "1&token=tok".
Pieces(text) ==
    CASE text = "" -> <<>>
      [] text = "1&token=tok" -> <<"1", "&", "token", "=", "tok">>
      [] OTHER -> <<text>>

\* "&".join(f"{k}={v}" for k, v in params.items() ...)
RECURSIVE join_params(_)
join_params(params) ==
    IF params = <<>> THEN <<>>
    ELSE <<Head(params)[1], "=">> \o Pieces(Head(params)[2])
         \o (IF Tail(params) = <<>> THEN <<>> ELSE <<"&">>)
         \o join_params(Tail(params))


NoDashRequest ==
    [handler |-> "", header |-> NONE, query |-> <<>>, cookie |-> NONE, db |-> FreshDb]
NoDashResponse ==
    [status |-> 0, detail |-> "", body |-> "", location |-> [path |-> "", query |-> <<>>],
     set_cookie |-> NoCookie]

Unauthorized == [NoDashResponse EXCEPT !.status = 401, !.detail = "Dashboard token required"]
Ok(body) == [NoDashResponse EXCEPT !.status = 200, !.body = body]

\* purge_all()
purge_all(d) ==
    [d EXCEPT !.request_log = <<>>, !.error_log = <<>>, !.last_prune_ts = NoRow]

\* The database as api_analytics_purge leaves it.
api_analytics_purge_db_unguarded(req, e, d) == purge_all(d)
api_analytics_purge_db(req, e, d) ==
    IF _require_dashboard_auth(req, e) THEN purge_all(d) ELSE d

dashboard_response(req, e) ==
    IF _dashboard_token_required(e) # NONE /\ _token_from_request(req) # ""
    THEN IF _token_from_request(req) # _dashboard_token_required(e)
         THEN Unauthorized
         ELSE [NoDashResponse EXCEPT
                  !.status = 303,
                  \* url = "/dashboard" + (f"?{query}" if query else ""), which
                  \* RedirectResponse quotes leaving "&" and "=" as they are
                  !.location = [path |-> "/dashboard",
                                query |-> join_params(clean_params(req.query))],
                  !.set_cookie = _maybe_set_dashboard_cookie_from_token(req, e)]
    ELSE IF _require_dashboard_auth(req, e) THEN Ok("dashboard.html")
    ELSE Unauthorized

(***************************************************************************)
(* Reverse-geocoding enrichment.  A text is the sequence of its pieces: a   *)
(* run of blanks " ", a bracket, a colon, a run of digits, a dotted quad or *)
(* another word.  None is the text <<NONE>>.                               *)
(***************************************************************************)
\* str.strip(): the text between its first and its last piece that is not blank
strip(s) ==
    LET inked == {i \in 1..Len(s) : s[i] # " "}
    IN  IF inked = {} THEN <<>>
        ELSE SubSeq(s, CHOOSE i \in inked : \A j \in inked : i <= j,
                       CHOOSE i \in inked : \A j \in inked : i >= j)

_truthy_env(raw, default) ==
    IF raw = <<NONE>> THEN default
    ELSE LET lowered == [i \in 1..Len(strip(raw)) |->
                            CASE strip(raw)[i] = "TRUE" -> "true"
                              [] strip(raw)[i] = "On" -> "on"
                              [] OTHER -> strip(raw)[i]]
         IN  IF lowered \in {<<"1">>, <<"true">>, <<"yes">>, <<"y">>, <<"on">>} THEN TRUE
             ELSE IF lowered \in {<<"0">>, <<"false">>, <<"no">>, <<"n">>, <<"off">>}
             THEN FALSE
             ELSE default

_normalize_ip(ip) ==
    IF ip = <<NONE>> \/ ip = <<>> THEN <<NONE>>
    ELSE IF strip(ip) = <<>> THEN <<NONE>>
    ELSE LET s == strip(ip)
             \* re.match(r"^\d{1,3}(?:\.\d{1,3}){3}:\d+$", s), then s.split(":", 1)[0]
             t == IF /\ Len(s) = 3
                     /\ s[1] \in {"8.8.8.8", "10.0.0.1", "127.0.0.1", "169.254.1.1",
                                  "999.1.1.1"}
                     /\ s[2] = ":"
                     /\ s[3] \in {"1", "53", "80", "443"}
                  THEN <<s[1]>> ELSE s
             closing == {i \in 1..Len(t) : t[i] = "]"}
         IN  \* t.startswith("[") and "]:" in t, then t[1 : t.index("]")]
             IF /\ t[1] = "["
                /\ \E i \in closing : i < Len(t) /\ t[i + 1] = ":"
             THEN SubSeq(t, 2, (CHOOSE i \in closing : \A j \in closing : i <= j) - 1)
             ELSE t

\* any text ipaddress.ip_address() takes
_is_public_ip_any_address(ip) ==
    IF _normalize_ip(ip) = <<NONE>> \/ _normalize_ip(ip) = <<>> THEN FALSE
    ELSE _normalize_ip(ip) \in {<<"8.8.8.8">>, <<"2001:4860:4860::8888">>,
                                <<"10.0.0.1">>, <<"127.0.0.1">>, <<"169.254.1.1">>,
                                <<"fe80::1">>}

\* ipaddress.ip_address(s).is_global: of the addresses, the ones outside the
\* private, loopback and link-local ranges
_is_public_ip(ip) ==
    IF _normalize_ip(ip) = <<NONE>> \/ _normalize_ip(ip) = <<>> THEN FALSE
    ELSE IF _normalize_ip(ip) \notin {<<"8.8.8.8">>, <<"2001:4860:4860::8888">>,
                                      <<"10.0.0.1">>, <<"127.0.0.1">>, <<"169.254.1.1">>,
                                      <<"fe80::1">>}
    THEN FALSE                                   \* ip_address raises ValueError
    ELSE _normalize_ip(ip) \in {<<"8.8.8.8">>, <<"2001:4860:4860::8888">>}

_geoip_cache_ttl_seconds(raw) ==
    IF ~raw.set THEN 24 * 60 * 60
    ELSE IF raw.int THEN Max(60, raw.n)
    ELSE 24 * 60 * 60

\* What is not yet used.
\*   geo: nothing in the environment, an empty _geoip_cache, no call made
\*   smoke: main() of the smoke script before client.get("/api/health"); exit
\*          is the status the process ends with, -1 while it runs
\*   pool: no worker, no run of _prune
\*   boot: no worker has started
Unused ==
    [geo |->
        [ANALYTICS_GEOIP_ENABLED |-> <<NONE>>,
         ANALYTICS_GEOIP_CACHE_TTL_SECONDS |-> Unset,
         time |-> 0, cache |-> {}, calls |-> 0,
         call |-> [made |-> FALSE, client_ip |-> <<NONE>>, ip |-> <<NONE>>,
                   lookup |-> <<NONE>>, value |-> NONE, cache_before |-> {}]],
     smoke |->
        [pc |-> "health", done |-> 0, failures |-> {}, skipped |-> {},
         raised |-> "none", exit |-> -1],
     pool |-> [workers |-> <<>>, prunes |-> <<>>],
     boot |-> <<>>]

(***************************************************************************)
(* The state of each part when another part's specification runs.          *)
(***************************************************************************)
Absent == [k |-> "absent", v |-> 0]     \* a key a dict does not have

NoRequest ==
    [app |-> "", handler |-> "", form_type |-> "", style |-> "",
     body |-> [json |-> TRUE, mapping |-> TRUE, items |-> <<>>]]
NoResponse ==
    [status |-> 0, page |-> "", detail |-> "", form_type |-> "", form_class |-> "",
     framework |-> "", style |-> "", success |-> FALSE,
     data |-> Absent, errors |-> Absent, form_data |-> Absent]

\* Every part but the running one is in the state it has before it is used.
Idle(running) ==
    /\ IF running = "parse" THEN TRUE
       ELSE /\ form_data = <<>>
            /\ parse_pos = 1
            /\ result = EmptyDict
            /\ parse_raised = FALSE
    /\ IF running = "forms" THEN TRUE
       ELSE /\ examples_ok = TRUE
            /\ http_req = NoRequest
            /\ http_resp = NoResponse
    /\ IF running \in {"analytics", "dash", "workers"} THEN TRUE
       ELSE /\ db = FreshDb
            /\ now = [m |-> 0, us |-> 0]
            /\ env = [ANALYTICS_RETENTION_DAYS |-> Unset, ANALYTICS_MAX_ROWS |-> Unset]
            /\ last_call = NoCall
    /\ IF running \in {"analytics", "workers"} THEN TRUE
       ELSE /\ calls = 0
            /\ ticks = 0
    /\ IF running = "dash" THEN TRUE
       ELSE /\ dash_env = [DASHBOARD_TOKEN |-> NONE, DASHBOARD_COOKIE_TTL_SECONDS |-> Unset]
            /\ dash_req = NoDashRequest
            /\ dash_resp = NoDashResponse
    /\ IF running = "geoip" THEN TRUE
       ELSE geo = Unused.geo
    /\ IF running = "smoke" THEN TRUE
       ELSE smoke = Unused.smoke
    /\ IF running = "workers" THEN TRUE
       ELSE pool = Unused.pool
    /\ IF running = "startup" THEN TRUE
       ELSE boot = Unused.boot

(***************************************************************************)
(* The form classes and the fields each requires (the fields declared      *)
(* without a default).  validate_form_data is the library's validator: the *)
(* model keeps of it that every required field must be present and hold a  *)
(* string, and UserRegistrationForm's validate_passwords_match; lengths    *)
(* and formats are left out.                                               *)
(***************************************************************************)
RequiredFields(form_class) ==
    CASE form_class = "MinimalLoginForm" -> <<"username", "password">>
      [] form_class = "UserRegistrationForm" ->
            <<"username", "email", "password", "confirm_password">>
      [] form_class = "ContactForm" -> <<"name", "email", "subject", "message">>
      [] form_class = "PetRegistrationForm" -> <<"owner_name", "email">>
      [] form_class = "CompleteShowcaseForm" ->
            <<"first_name", "last_name", "email", "experience_level", "email_field",
              "password_field", "search_field", "url_field", "tel_field",
              "textarea_field", "number_field", "float_field", "select_field",
              "date_field", "time_field", "datetime_field", "file_field">>
      [] form_class = "CompanyOrganizationForm" ->
            <<"company_name", "company_code", "headquarters_address", "ceo_name",
              "ceo_email", "founded_date">>
      [] form_class = "LayoutDemonstrationForm" -> <<>>
      [] form_class = "ComprehensiveTabbedForm" -> <<>>

Field(name) == NameTok(<<name>>)

FieldOk(parsed_data, name) ==
    /\ Field(name) \in DOMAIN parsed_data.v
    /\ parsed_data.v[Field(name)].k = "str"

validate_form_data(form_class, parsed_data) ==
    LET bad == {name \in Range(RequiredFields(form_class)) : ~FieldOk(parsed_data, name)}
        mismatch ==
            /\ form_class = "UserRegistrationForm"
            /\ FieldOk(parsed_data, "password")
            /\ FieldOk(parsed_data, "confirm_password")
            /\ parsed_data.v[Field("confirm_password")] # parsed_data.v[Field("password")]
        failed == bad \cup (IF mismatch THEN {"confirm_password"} ELSE {})
    IN  [is_valid |-> failed = {},
         data |-> parsed_data,
         errors |-> Dict([f \in {Field(name) : name \in failed} |-> Str("invalid")])]

\* parse_nested_form_data of a request payload: form_data.items() raises
\* when the payload is no mapping.
parse_nested_form_data(payload) ==
    IF ~payload.mapping THEN Raise("AttributeError")
    ELSE parse_items(EmptyDict, payload.items)

(***************************************************************************)
(* handle_form_submission: a dict with success, message and data, or with  *)
(* success and errors; a key the dict lacks is Absent.                     *)
(***************************************************************************)
\* if result.is_valid: ... else: ...
submission_result(r) ==
    IF r.is_valid
    THEN [k |-> "dict", success |-> TRUE, data |-> r.data, errors |-> Absent]
    ELSE [k |-> "dict", success |-> FALSE, data |-> Absent, errors |-> r.errors]

\* The try block from the parsed data on; a raise of the parser reaches
\* "except Exception as e".
handle_parsed_uncaught(form_class, parsed_data) ==
    IF parsed_data.k = "raise"
    THEN [k |-> "raise", v |-> parsed_data.v, success |-> FALSE,
          data |-> Absent, errors |-> Absent]
    ELSE submission_result(validate_form_data(form_class, parsed_data))
handle_parsed(form_class, parsed_data) ==
    IF parsed_data.k = "raise"
    THEN [k |-> "dict", success |-> FALSE, data |-> Absent,
          errors |-> Dict([f \in {Field("form")} |-> Str(parsed_data.v)])]
    ELSE submission_result(validate_form_data(form_class, parsed_data))

handle_form_submission(form_class, payload) ==
    handle_parsed(form_class, parse_nested_form_data(payload))

\* result.get(key)
Get(value) == IF value.k = "absent" THEN None ELSE value
\* Python truth of a value
Truthy(value) ==
    CASE value.k \in {"none", "absent"} -> FALSE
      [] value.k = "dict" -> DOMAIN value.v # {}
      [] value.k = "list" -> value.v # <<>>
      [] value.k = "str" -> value.v # ""
      [] value.k = "bool" -> value.v
\* result.get("errors") or {}
ErrorsOrEmpty(errors) == IF Truthy(Get(errors)) THEN errors ELSE EmptyDict

(***************************************************************************)
(* _form_mapping (src/main.py) and FORM_REGISTRY (the examples app).       *)
(***************************************************************************)
_form_mapping ==
    LET mapping ==
            ("login" :> "MinimalLoginForm") @@
            ("register" :> "UserRegistrationForm") @@
            ("user" :> "UserRegistrationForm") @@
            ("contact" :> "ContactForm") @@
            ("pets" :> "PetRegistrationForm") @@
            ("showcase" :> "CompleteShowcaseForm") @@
            ("layouts" :> "LayoutDemonstrationForm") @@
            ("self-contained" :> "UserRegistrationForm")
    IN  IF examples_ok
        THEN mapping @@ ("organization" :> "CompanyOrganizationForm")
                     @@ ("organization-shared" :> "CompanyOrganizationForm")
        ELSE mapping

FORM_REGISTRY ==
    ("login" :> "MinimalLoginForm") @@
    ("register" :> "UserRegistrationForm") @@
    ("pets" :> "PetRegistrationForm") @@
    ("showcase" :> "CompleteShowcaseForm") @@
    ("layouts" :> "LayoutDemonstrationForm") @@
    ("organization" :> "CompanyOrganizationForm") @@
    ("organization-shared" :> "CompanyOrganizationForm")

\* (style or "").strip().lower()
StripLower(style) ==
    CASE style = " Material " -> "material"
      [] style = "BOOTSTRAP" -> "bootstrap"
      [] OTHER -> style

HTTPException(status_code, detail) ==
    [NoResponse EXCEPT !.status = status_code, !.detail = detail]
\* An exception no handler of the route catches: the server answers 500.
ServerError(e) == [NoResponse EXCEPT !.status = 500, !.detail = e]

(***************************************************************************)
(* The JSON endpoints of src/main.py.                                      *)
(***************************************************************************)
\* The dict api_submit_form returns for the result of handle_form_submission.
submit_answer(res) ==
    IF res.k = "raise" THEN ServerError(res.v)
    ELSE [NoResponse EXCEPT
             !.status = 200,
             !.success = res.success,
             !.data = IF res.success THEN Get(res.data) ELSE None,
             !.errors = ErrorsOrEmpty(res.errors),
             !.framework = "fastapi"]

api_render_form_response_registry(form_type, style) ==
    IF form_type \notin DOMAIN FORM_REGISTRY
    THEN HTTPException(404, "Form type not found")
    ELSE [NoResponse EXCEPT !.status = 200, !.form_type = form_type,
                            !.form_class = FORM_REGISTRY[form_type],
                            !.style = style, !.framework = "fastapi"]

api_render_form_response(form_type, style) ==
    IF form_type \notin DOMAIN _form_mapping
    THEN HTTPException(404, "Form type not found")
    ELSE IF StripLower(style) \notin {"bootstrap", "material", "none"}
    THEN HTTPException(400, "style must be 'bootstrap', 'material', or 'none'")
    ELSE [NoResponse EXCEPT !.status = 200, !.form_type = form_type,
                            !.form_class = _form_mapping[form_type],
                            !.style = StripLower(style), !.framework = "fastapi"]

(***************************************************************************)
(* The JSON endpoints of the examples app (examples/fastapi_example.py).   *)
(***************************************************************************)
\* result['data'] and result['errors'] raise KeyError for a key the result lacks.
example_submit_answer(res) ==
    IF res.k = "raise" THEN ServerError(res.v)
    ELSE IF res.success /\ res.data.k = "absent" THEN ServerError("KeyError")
    ELSE IF res.errors.k = "absent" THEN ServerError("KeyError")
    ELSE [NoResponse EXCEPT
             !.status = 200,
             !.success = res.success,
             !.data = IF res.success THEN res.data ELSE None,
             !.errors = res.errors,
             !.framework = "fastapi"]

(***************************************************************************)
(* The HTML form routes of src/main.py.  form_dict is dict(await           *)
(* request.form()): a flat mapping of the submitted keys to strings.       *)
(***************************************************************************)
FormDict(body) == [k |-> "form_dict", v |-> body.items]

\* templates.TemplateResponse(request, "success.html", {... "data": data ...})
success_page(form_class, data) ==
    [NoResponse EXCEPT !.status = 200, !.page = "success.html",
                       !.form_class = form_class, !.success = TRUE,
                       !.data = data, !.framework = "fastapi"]

\* render_form_html_async(form_class, form_data=..., errors=...) shown in form.html
form_page(form_class, style, values, errors) ==
    [NoResponse EXCEPT !.status = 200, !.page = "form.html",
                       !.form_class = form_class, !.style = style,
                       !.form_data = values, !.errors = errors,
                       !.framework = "fastapi"]

\* try: parse_nested_form_data(form_dict)  except Exception: fallback
ParsedOrElse(parsed, fallback) == IF parsed.k = "raise" THEN fallback ELSE parsed
ParsedOr(body, fallback) == ParsedOrElse(parse_nested_form_data(body), fallback)

\* if result["success"]: the success page; else: the form with result["errors"]
html_answer(form_class, style, values, res) ==
    IF res.success THEN success_page(form_class, res.data)
    ELSE form_page(form_class, style, values, res.errors)

\* as html_answer, with errors=result.get("errors") or {} (layouts and both
\* organization routes)
html_answer_get(form_class, style, values, res) ==
    IF res.success THEN success_page(form_class, res.data)
    ELSE form_page(form_class, style, values, ErrorsOrEmpty(res.errors))

\* self_contained(style, demo, debug): the page _build_self_contained_page
\* builds with form_data=None and errors=None.
self_contained(style, demo) ==
    IF StripLower(style) \notin {"bootstrap", "material"}
    THEN HTTPException(400, "style must be 'bootstrap' or 'material'")
    ELSE [NoResponse EXCEPT
             !.status = 200, !.page = "self-contained",
             !.form_class = "UserRegistrationForm", !.style = StripLower(style),
             !.form_data = IF demo THEN [k |-> "demo", v |-> 0] ELSE EmptyDict,
             !.errors = EmptyDict, !.framework = "fastapi"]

\* if result["success"]: the success page; else: self_contained(style, demo=False)
self_contained_answer(style, res) ==
    IF res.success THEN success_page("UserRegistrationForm", res.data)
    ELSE self_contained(style, FALSE)

(***************************************************************************)
(* Requests.  A payload is a JSON or form body: its items when it is a     *)
(* mapping.  Payloads(form_class) holds a payload with every required      *)
(* field, that payload with one field dropped, with one field not a        *)
(* string, with nested keys added, with keys whose paths collide, the      *)
(* empty mapping, and (over JSON only) a list and a body that is no JSON.  *)
(***************************************************************************)
Mapping(items) == [json |-> TRUE, mapping |-> TRUE, items |-> items]

Filled(fields) ==
    [i \in 1..Len(fields) |->
        <<(<<fields[i]>>),
          IF fields[i] = "confirm_password" THEN Str("secret")
          ELSE IF fields[i] = "password" THEN Str("secret") ELSE Str("Rex")>>]

FormPayloads(form_class) ==
    LET full == Filled(RequiredFields(form_class))
        nested == <<(<<(<<"pets", "[", "0", "]", ".", "name">>), Str("Rex")>>)>>
        collide == <<(<<(<<"pets">>), Str("Rex")>>),
                     (<<(<<"pets", ".", "name">>), Str("Rex")>>)>>
    IN  {Mapping(full), Mapping(full \o nested), Mapping(full \o collide), Mapping(<<>>)}
        \cup (IF full = <<>> THEN {}
              ELSE {Mapping(Tail(full)),
                    Mapping([full EXCEPT ![Len(full)] = <<full[Len(full)][1], Str("other")>>])})

JsonPayloads(form_class) ==
    LET full == Filled(RequiredFields(form_class))
    IN  FormPayloads(form_class)
        \cup {[json |-> TRUE, mapping |-> FALSE, items |-> <<>>],      \* a JSON list
              [json |-> FALSE, mapping |-> FALSE, items |-> <<>>]}     \* no JSON

        \cup (IF full = <<>> THEN {}
              ELSE {Mapping([full EXCEPT ![1] = <<full[1][1], Bool(TRUE)>>])})

FormTypes ==
    {"login", "register", "user", "contact", "pets", "showcase", "layouts",
     "self-contained", "organization", "organization-shared", "tasks", ""}
Styles == {"bootstrap", " Material ", "none", "tailwind"}
\* The payloads a route is sent: those built for its own form class and
\* those built for the login form.
RouteClass(form_type) ==
    CASE form_type \in {"register", "user", "self-contained"} -> "UserRegistrationForm"
      [] form_type = "contact" -> "ContactForm"
      [] form_type = "pets" -> "PetRegistrationForm"
      [] form_type = "showcase" -> "CompleteShowcaseForm"
      [] form_type = "layouts" -> "LayoutDemonstrationForm"
      [] form_type = "organization" -> "ComprehensiveTabbedForm"
      [] form_type = "organization-shared" -> "CompanyOrganizationForm"
      [] OTHER -> "MinimalLoginForm"
JsonBodies(form_type) ==
    JsonPayloads(RouteClass(form_type)) \cup JsonPayloads("MinimalLoginForm")
FormBodies(form_type) ==
    FormPayloads(RouteClass(form_type)) \cup FormPayloads("MinimalLoginForm")

Request(app, handler, form_type, style, body) ==
    [app |-> app, handler |-> handler, form_type |-> form_type, style |-> style,
     body |-> body]

\* The handlers keep no state between requests: each behaviour serves one
\* request, taken while none has been served (http_req = NoRequest).

\* Starlette hands an HTTPException with status 404 to src/main.py's
\* not_found_handler, which renders 404.html with that status.
not_found_handler(resp) ==
    IF resp.status = 404 THEN [resp EXCEPT !.page = "404.html"] ELSE resp

api_form_schema ==
    /\ http_req = NoRequest
    /\ \E form_type \in FormTypes :
          /\ http_req' = Request("main", "api_form_schema", form_type, "", Mapping(<<>>))
          /\ http_resp' =
                not_found_handler(
                    IF form_type \notin DOMAIN _form_mapping
                    THEN HTTPException(404, "Form type not found")
                    ELSE [NoResponse EXCEPT !.status = 200, !.form_type = form_type,
                                            !.form_class = _form_mapping[form_type],
                                            !.framework = "fastapi"])
    /\ UNCHANGED <<examples_ok, parseVars, analyticsVars, dashVars, restVars>>

api_submit_form ==
    /\ http_req = NoRequest
    /\ \E form_type \in FormTypes : \E body \in JsonBodies(form_type) :
          /\ http_req' = Request("main", "api_submit_form", form_type, "", body)
          /\ http_resp' =
                not_found_handler(
                    IF form_type \notin DOMAIN _form_mapping
                    THEN HTTPException(404, "Form type not found")
                    ELSE IF ~body.json
                    THEN ServerError("JSONDecodeError")     \* await request.json()
                    ELSE submit_answer(
                            handle_form_submission(_form_mapping[form_type], body)))
    /\ UNCHANGED <<examples_ok, parseVars, analyticsVars, dashVars, restVars>>

api_render_form ==
    /\ http_req = NoRequest
    /\ \E form_type \in FormTypes, style \in Styles :
          /\ http_req' = Request("main", "api_render_form", form_type, style, Mapping(<<>>))
          /\ http_resp' = not_found_handler(api_render_form_response(form_type, style))
    /\ UNCHANGED <<examples_ok, parseVars, analyticsVars, dashVars, restVars>>

example_api_form_schema ==
    /\ http_req = NoRequest
    /\ \E form_type \in FormTypes :
          /\ http_req' = Request("examples", "api_form_schema", form_type, "", Mapping(<<>>))
          /\ http_resp' =
                IF form_type \notin DOMAIN FORM_REGISTRY
                THEN HTTPException(404, "Form type not found")
                ELSE [NoResponse EXCEPT !.status = 200, !.form_type = form_type,
                                        !.form_class = FORM_REGISTRY[form_type],
                                        !.framework = "fastapi"]
    /\ UNCHANGED <<examples_ok, parseVars, analyticsVars, dashVars, restVars>>

example_api_submit_form ==
    /\ http_req = NoRequest
    /\ \E form_type \in FormTypes : \E body \in JsonBodies(form_type) :
          /\ http_req' = Request("examples", "api_submit_form", form_type, "", body)
          /\ http_resp' =
                IF form_type \notin DOMAIN FORM_REGISTRY
                THEN HTTPException(404, "Form type not found")
                ELSE IF ~body.json THEN ServerError("JSONDecodeError")
                ELSE example_submit_answer(
                        handle_form_submission(FORM_REGISTRY[form_type], body))
    /\ UNCHANGED <<examples_ok, parseVars, analyticsVars, dashVars, restVars>>

example_api_render_form ==
    /\ http_req = NoRequest
    /\ \E form_type \in FormTypes, style \in Styles :
          /\ http_req' = Request("examples", "api_render_form", form_type, style, Mapping(<<>>))
          /\ http_resp' =
                IF form_type \notin DOMAIN FORM_REGISTRY
                THEN HTTPException(404, "Form type not found")
                ELSE [NoResponse EXCEPT !.status = 200, !.form_type = form_type,
                                        !.form_class = FORM_REGISTRY[form_type],
                                        !.style = style, !.framework = "fastapi"]
    /\ UNCHANGED <<examples_ok, parseVars, analyticsVars, dashVars, restVars>>

login_post ==
    /\ http_req = NoRequest
    /\ \E style \in Styles, body \in FormBodies("login") :
          /\ http_req' = Request("main", "html_post", "login", style, body)
          /\ http_resp' =
                html_answer("MinimalLoginForm", style, FormDict(body),
                            handle_form_submission("MinimalLoginForm", body))
    /\ UNCHANGED <<examples_ok, parseVars, analyticsVars, dashVars, restVars>>
register_post ==
    /\ http_req = NoRequest
    /\ \E style \in Styles, body \in FormBodies("register") :
          /\ http_req' = Request("main", "html_post", "register", style, body)
          /\ http_resp' =
                html_answer("UserRegistrationForm", style, FormDict(body),
                            handle_form_submission("UserRegistrationForm", body))
    /\ UNCHANGED <<examples_ok, parseVars, analyticsVars, dashVars, restVars>>
user_post ==
    /\ http_req = NoRequest
    /\ \E style \in Styles, body \in FormBodies("user") :
          /\ http_req' = Request("main", "html_post", "user", style, body)
          /\ http_resp' =
                html_answer("UserRegistrationForm", style, FormDict(body),
                            handle_form_submission("UserRegistrationForm", body))
    /\ UNCHANGED <<examples_ok, parseVars, analyticsVars, dashVars, restVars>>
contact_post ==
    /\ http_req = NoRequest
    /\ \E style \in Styles, body \in FormBodies("contact") :
          /\ http_req' = Request("main", "html_post", "contact", style, body)
          /\ http_resp' =
                html_answer("ContactForm", style, FormDict(body),
                            handle_form_submission("ContactForm", body))
    /\ UNCHANGED <<examples_ok, parseVars, analyticsVars, dashVars, restVars>>
\* pets and showcase show the parsed form, form_dict when it cannot be parsed;
\* layouts shows {} then.
pets_post ==
    /\ http_req = NoRequest
    /\ \E style \in Styles, body \in FormBodies("pets") :
          /\ http_req' = Request("main", "html_post", "pets", style, body)
          /\ http_resp' =
                html_answer("PetRegistrationForm", style, ParsedOr(body, FormDict(body)),
                            handle_form_submission("PetRegistrationForm", body))
    /\ UNCHANGED <<examples_ok, parseVars, analyticsVars, dashVars, restVars>>
showcase_post ==
    /\ http_req = NoRequest
    /\ \E style \in Styles, body \in FormBodies("showcase") :
          /\ http_req' = Request("main", "html_post", "showcase", style, body)
          /\ http_resp' =
                html_answer("CompleteShowcaseForm", style, ParsedOr(body, FormDict(body)),
                            handle_form_submission("CompleteShowcaseForm", body))
    /\ UNCHANGED <<examples_ok, parseVars, analyticsVars, dashVars, restVars>>
layouts_post ==
    /\ http_req = NoRequest
    /\ \E style \in Styles, body \in FormBodies("layouts") :
          /\ http_req' = Request("main", "html_post", "layouts", style, body)
          /\ http_resp' =
                html_answer_get("LayoutDemonstrationForm", style, ParsedOr(body, EmptyDict),
                                handle_form_submission("LayoutDemonstrationForm", body))
    /\ UNCHANGED <<examples_ok, parseVars, analyticsVars, dashVars, restVars>>
\* Both organization routes import their form class from the examples
\* package inside the handler.
organization_post ==
    /\ http_req = NoRequest
    /\ \E style \in Styles, body \in FormBodies("organization") :
          /\ http_req' = Request("main", "html_post", "organization", style, body)
          /\ http_resp' =
                IF ~examples_ok THEN ServerError("ImportError")
                ELSE html_answer_get("ComprehensiveTabbedForm", style, FormDict(body),
                                     handle_form_submission("ComprehensiveTabbedForm", body))
    /\ UNCHANGED <<examples_ok, parseVars, analyticsVars, dashVars, restVars>>
organization_shared_post ==
    /\ http_req = NoRequest
    /\ \E style \in Styles, body \in FormBodies("organization-shared") :
          /\ http_req' = Request("main", "html_post", "organization-shared", style, body)
          /\ http_resp' =
                IF ~examples_ok THEN ServerError("ImportError")
                ELSE html_answer_get("CompanyOrganizationForm", style, FormDict(body),
                                     handle_form_submission("CompanyOrganizationForm", body))
    /\ UNCHANGED <<examples_ok, parseVars, analyticsVars, dashVars, restVars>>
self_contained_post ==
    /\ http_req = NoRequest
    /\ \E style \in Styles, body \in FormBodies("self-contained") :
          /\ http_req' = Request("main", "html_post", "self-contained", style, body)
          /\ http_resp' =
                IF StripLower(style) \notin {"bootstrap", "material"}
                THEN HTTPException(400, "style must be 'bootstrap' or 'material'")
                ELSE self_contained_answer(
                        StripLower(style),
                        handle_form_submission("UserRegistrationForm", body))
    /\ UNCHANGED <<examples_ok, parseVars, analyticsVars, dashVars, restVars>>

\* The GET route of each HTML form: login_get, register_get (user_get calls
\* it), contact_get, pets_get, showcase_get, layouts_get, organization_get,
\* organization_shared_get render the form of their class with the demo
\* data; /self-contained is self_contained.
html_get ==
    /\ http_req = NoRequest
    /\ \E style \in Styles :
       \E form_type \in {"login", "register", "user", "contact", "pets", "showcase",
                         "layouts", "organization", "organization-shared",
                         "self-contained"} :
          /\ http_req' = Request("main", "html_get", form_type, style, Mapping(<<>>))
          /\ http_resp' =
                IF form_type = "self-contained" THEN self_contained(style, TRUE)
                ELSE IF form_type \in {"organization", "organization-shared"}
                        /\ ~examples_ok
                THEN ServerError("ImportError")
                ELSE form_page(
                        CASE form_type = "login" -> "MinimalLoginForm"
                          [] form_type \in {"register", "user"} -> "UserRegistrationForm"
                          [] form_type = "contact" -> "ContactForm"
                          [] form_type = "pets" -> "PetRegistrationForm"
                          [] form_type = "showcase" -> "CompleteShowcaseForm"
                          [] form_type = "layouts" -> "LayoutDemonstrationForm"
                          [] form_type = "organization" -> "ComprehensiveTabbedForm"
                          [] form_type = "organization-shared" -> "CompanyOrganizationForm",
                        style, [k |-> "demo", v |-> 0], EmptyDict)
    /\ UNCHANGED <<examples_ok, parseVars, analyticsVars, dashVars, restVars>>

InitForms ==
    /\ Idle("forms")
    /\ examples_ok \in BOOLEAN
    /\ http_req = NoRequest
    /\ http_resp = NoResponse

SpecForms ==
    /\ InitForms
    /\ [][\/ api_form_schema
          \/ api_submit_form
          \/ api_render_form
          \/ example_api_form_schema
          \/ example_api_submit_form
          \/ example_api_render_form
          \/ login_post
          \/ register_post
          \/ user_post
          \/ contact_post
          \/ pets_post
          \/ showcase_post
          \/ layouts_post
          \/ organization_post
          \/ organization_shared_post
          \/ self_contained_post
          \/ html_get]_vars

(***************************************************************************)
(* The analytics log under calls, traffic spikes and the passing of time.  *)
(* The clock is read once per call.                                        *)
(***************************************************************************)
MaxCalls == 1           \* calls and spikes in a behaviour
MaxTicks == 1           \* advances of the clock in a behaviour

\* The logs an earlier run of the server can have left under the same
\* environment: none; a request and an error at the start and, 5 minutes
\* later, an error and a request; that log after a spike of requests and of
\* errors.
FiveMinutesLater == [m |-> 5, us |-> 1]

Requested(d, t, e, n) == Run(d, record_request_statements(d, t), "none", t, e, n)
Errored(d, t, e, n) == Run(d, record_error_statements(d, t), "none", t, e, n)

LogOfFourCalls(e) ==
    Requested(Errored(Errored(Requested(FreshDb, [m |-> 0, us |-> 0], e, 1), [m |-> 0, us |-> 0], e, 1),
                      FiveMinutesLater, e, 1),
              FiveMinutesLater, e, 1)

InitAnalytics ==
    /\ Idle("analytics")
    /\ env \in [ANALYTICS_RETENTION_DAYS : {Junk, Num(0)},
                ANALYTICS_MAX_ROWS : {Unset, Num(10)}]
    /\ db \in {FreshDb, LogOfFourCalls(env),
               Errored(Requested(LogOfFourCalls(env), FiveMinutesLater, env,
                                 get_max_rows(env)),
                       FiveMinutesLater, env, get_max_rows(env))}
    /\ now = FiveMinutesLater
    /\ last_call = NoCall
    /\ calls = 0
    /\ ticks = 0

record_request ==
    /\ calls < MaxCalls
    /\ \E failing \in Range(record_request_statements(db, now)) \cup {"none"} :
         \E exception \in Raises(failing) :
            /\ db' = Run(db, record_request_statements(db, now), failing, now, env, 1)
            /\ last_call' = Call("record_request", db, now, env, failing, exception)
    /\ calls' = calls + 1
    /\ UNCHANGED <<now, env, ticks, parseVars, httpVars, dashVars, restVars>>

record_error ==
    /\ calls < MaxCalls
    /\ \E failing \in Range(record_error_statements(db, now)) \cup {"none"} :
         \E exception \in Raises(failing) :
            /\ db' = Run(db, record_error_statements(db, now), failing, now, env, 1)
            /\ last_call' = Call("record_error", db, now, env, failing, exception)
    /\ calls' = calls + 1
    /\ UNCHANGED <<now, env, ticks, parseVars, httpVars, dashVars, restVars>>

\* A traffic spike: n calls of record_request one after another before the
\* clock moves, none failing.  Only the first can find _should_prune true.
record_request_spike ==
    /\ calls < MaxCalls
    /\ \E n \in {200000} :
         /\ db' = Run(db, record_request_statements(db, now), "none", now, env, n)
         /\ last_call' = Call("record_request", db, now, env, "none", "none")
    /\ calls' = calls + 1
    /\ UNCHANGED <<now, env, ticks, parseVars, httpVars, dashVars, restVars>>

record_error_spike ==
    /\ calls < MaxCalls
    /\ \E n \in {200000} :
         /\ db' = Run(db, record_error_statements(db, now), "none", now, env, n)
         /\ last_call' = Call("record_error", db, now, env, "none", "none")
    /\ calls' = calls + 1
    /\ UNCHANGED <<now, env, ticks, parseVars, httpVars, dashVars, restVars>>

Tick ==
    /\ ticks < MaxTicks
    /\ \E d \in {5, Day}, us \in {0, 1} : now' = [m |-> now.m + d, us |-> us]
    /\ ticks' = ticks + 1
    /\ UNCHANGED <<db, env, last_call, calls, parseVars, httpVars, dashVars, restVars>>

SpecAnalytics ==
    /\ InitAnalytics
    /\ [][\/ record_request
          \/ record_error
          \/ record_request_spike
          \/ record_error_spike
          \/ Tick]_vars

(***************************************************************************)
(* The dashboard endpoints behind analytics_middleware.  Each behaviour    *)
(* serves one request, on a log that is new or holds the row of an         *)
(* earlier request.  The middleware records every request it lets through  *)
(* to a handler, after the handler has answered.                           *)
(***************************************************************************)
Headers == {NONE, "tok", " tok ", "bad", "  "}
Cookies == {NONE, "tok", "bad"}
Queries ==
    {<<>>,
     <<(<<"token", "tok">>)>>,
     <<(<<"token", "bad">>)>>,
     <<(<<"token", " tok ">>)>>,
     <<(<<"days", "7">>)>>,
     <<(<<"days", "7">>), (<<"token", "tok">>), (<<"view", "">>)>>,
     <<(<<"token", "tok">>), (<<"limit", "20">>), (<<"days", "7">>)>>,
     <<(<<"token", "tok">>), (<<"view", "1&token=tok">>)>>}


InitDash ==
    /\ Idle("dash")
    /\ env = [ANALYTICS_RETENTION_DAYS |-> Unset, ANALYTICS_MAX_ROWS |-> Unset]
    /\ db \in {FreshDb, Requested(FreshDb, [m |-> 0, us |-> 0], env, 1)}
    /\ now \in {FiveMinutesLater, [m |-> 8 * Day, us |-> 0]}
    /\ last_call = NoCall
    /\ calls = 0
    /\ ticks = 0
    /\ dash_env \in [DASHBOARD_TOKEN : {NONE, "  ", "tok", " tok "},
                     DASHBOARD_COOKIE_TTL_SECONDS : {Unset, Junk, Num(10), Num(3600)}]
    /\ dash_req = NoDashRequest
    /\ dash_resp = NoDashResponse

DashRequest(handler, header, query, cookie) ==
    [handler |-> handler, header |-> header, query |-> query, cookie |-> cookie,
     db |-> db]

\* analytics_middleware after call_next: record_request on the database the
\* handler left, failing or not.
middleware_record_request(handled) ==
    \E failing \in {"none", "_connect"} :
        /\ db' = Run(handled, record_request_statements(handled, now), failing, now, env, 1)
        /\ last_call' = Call("record_request", handled, now, env, failing,
                             IF failing = "none" THEN "none" ELSE "sqlite3.OperationalError")

api_analytics_summary ==
    /\ dash_req = NoDashRequest
    /\ \E header \in Headers, query \in Queries, cookie \in Cookies :
         /\ dash_req' = DashRequest("api_analytics_summary", header, query, cookie)
         /\ dash_resp' = IF _require_dashboard_auth(dash_req', dash_env)
                         THEN Ok("summary") ELSE Unauthorized
    /\ middleware_record_request(db)
    /\ UNCHANGED <<now, env, calls, ticks, dash_env, parseVars, httpVars, restVars>>

api_analytics_requests ==
    /\ dash_req = NoDashRequest
    /\ \E header \in Headers, query \in Queries, cookie \in Cookies :
         /\ dash_req' = DashRequest("api_analytics_requests", header, query, cookie)
         /\ dash_resp' = IF _require_dashboard_auth(dash_req', dash_env)
                         THEN Ok("requests") ELSE Unauthorized
    /\ middleware_record_request(db)
    /\ UNCHANGED <<now, env, calls, ticks, dash_env, parseVars, httpVars, restVars>>

api_analytics_errors ==
    /\ dash_req = NoDashRequest
    /\ \E header \in Headers, query \in Queries, cookie \in Cookies :
         /\ dash_req' = DashRequest("api_analytics_errors", header, query, cookie)
         /\ dash_resp' = IF _require_dashboard_auth(dash_req', dash_env)
                         THEN Ok("errors") ELSE Unauthorized
    /\ middleware_record_request(db)
    /\ UNCHANGED <<now, env, calls, ticks, dash_env, parseVars, httpVars, restVars>>

api_analytics_purge ==
    /\ dash_req = NoDashRequest
    /\ \E header \in Headers, query \in Queries, cookie \in Cookies :
         /\ dash_req' = DashRequest("api_analytics_purge", header, query, cookie)
         /\ dash_resp' = IF _require_dashboard_auth(dash_req', dash_env)
                         THEN Ok("status ok") ELSE Unauthorized
    /\ middleware_record_request(api_analytics_purge_db(dash_req', dash_env, db))
    /\ UNCHANGED <<now, env, calls, ticks, dash_env, parseVars, httpVars, restVars>>

dashboard ==
    /\ dash_req = NoDashRequest
    /\ \E header \in Headers, query \in Queries, cookie \in Cookies :
         /\ dash_req' = DashRequest("dashboard", header, query, cookie)
         /\ dash_resp' = dashboard_response(dash_req', dash_env)
    /\ middleware_record_request(db)
    /\ UNCHANGED <<now, env, calls, ticks, dash_env, parseVars, httpVars, restVars>>

SpecDash ==
    /\ InitDash
    /\ [][\/ api_analytics_summary
          \/ api_analytics_requests
          \/ api_analytics_errors
          \/ api_analytics_purge
          \/ dashboard]_vars

(***************************************************************************)
(* The inputs InitParse draws: keys of the shapes a form posts and keys    *)
(* whose paths collide.                                                    *)
(***************************************************************************)
RECURSIVE SeqsUpTo(_, _)
SeqsUpTo(S, n) ==
    IF n = 0 THEN {<<>>}
    ELSE LET shorter == SeqsUpTo(S, n - 1)
         IN  shorter \cup {Append(s, x) : s \in {t \in shorter : Len(t) = n - 1}, x \in S}

\* A mapping has each key once.
InitParse ==
    /\ LET
        Keys == {
            <<"pets", "[", "0", "]", ".", "name">>,
            <<"pets", "[", "1", "]", ".", "name">>,
            <<"pets", "[", "0", "1", "]", ".", "name">>,
            <<"pets">>,
            <<"pets", ".", "name">>,
            <<"pets", "[", "0", "]">>,
            <<"owner">>,
            <<"[", "0", "]">>,
            <<"org", ".", "teams", "[", "1", "]", "[", "0", "]", ".", "lead">>,
            <<"pets", "[", "x", "]", ".", "name">>,
            <<".">> }
        Values == {Str("Rex"), Str("On"), Str("0")}
       IN  form_data \in {f \in SeqsUpTo(Keys \X Values, MaxKeys) :
                             \A a, b \in 1..Len(f) : a # b => f[a][1] # f[b][1]}
    /\ parse_pos = 1
    /\ result = EmptyDict
    /\ parse_raised = FALSE
    /\ Idle("parse")

ParseStep ==
    /\ ~parse_raised
    /\ parse_pos <= Len(form_data)
    /\ LET r == parse_item(result, form_data[parse_pos][1], form_data[parse_pos][2])
       IN  IF r.k = "raise"
           THEN /\ parse_raised' = TRUE
                /\ UNCHANGED result
           ELSE /\ result' = r
                /\ UNCHANGED parse_raised
    /\ parse_pos' = parse_pos + 1
    /\ UNCHANGED <<form_data, httpVars, analyticsVars, dashVars, restVars>>

SpecParse == InitParse /\ [][ParseStep]_vars

(***************************************************************************)
(* The specification of the reverse-geocoding enrichment: record_request   *)
(* normalizes the client IP a request carries and hands it to geoip_enrich;*)
(* ipapi.co answers with a location or not at all.  _geoip_cache stays far  *)
(* under the 10,000 entries at which it is cut.                            *)
(***************************************************************************)
MaxGeoCalls == 2

geoip_enrich ==
    /\ geo.calls < MaxGeoCalls
    /\ \E client_ip \in {<<NONE>>, <<>>, <<" ">>, <<"8.8.8.8">>,
                         <<" ", "8.8.8.8", ":", "443", " ">>,
                         <<"[", "2001:4860:4860::8888", "]", ":", "53">>,
                         <<"[", "8.8.8.8", ":", "53", "]", ":", "1">>,
                         <<"10.0.0.1">>, <<"10.0.0.1", ":", "80">>, <<"127.0.0.1">>,
                         <<"169.254.1.1">>, <<"[", "fe80::1", "]", ":", "53">>,
                         <<"999.1.1.1", ":", "1">>, <<"not an ip">>} :
       \E answer \in {NONE, "US"} :
          LET \* record_request: geoip_enrich(normalized_ip)
              normalized_ip == _normalize_ip(client_ip)
              ip == _normalize_ip(normalized_ip)
              cached == {c \in geo.cache : c.ip = ip}
              hit == \E c \in cached :
                        geo.time - c.ts
                            <= _geoip_cache_ttl_seconds(geo.ANALYTICS_GEOIP_CACHE_TTL_SECONDS)
              call == [made |-> TRUE, client_ip |-> normalized_ip, ip |-> ip,
                       lookup |-> <<NONE>>, value |-> NONE, cache_before |-> geo.cache]
          IN  geo' =
                 IF ~_truthy_env(geo.ANALYTICS_GEOIP_ENABLED, FALSE)
                 THEN [geo EXCEPT !.calls = @ + 1, !.call = call]
                 ELSE IF ip = <<NONE>> \/ ip = <<>> \/ ~_is_public_ip(ip)
                 THEN [geo EXCEPT !.calls = @ + 1, !.call = call]
                 ELSE IF hit
                 THEN [geo EXCEPT !.calls = @ + 1,
                                  !.call = [call EXCEPT
                                               !.value = (CHOOSE c \in cached : TRUE).value]]
                 ELSE [geo EXCEPT !.calls = @ + 1,
                                  !.call = [call EXCEPT !.lookup = ip, !.value = answer],
                                  !.cache = (geo.cache \ cached)
                                            \cup {[ip |-> ip, ts |-> geo.time,
                                                   value |-> answer]}]
    /\ UNCHANGED <<parseVars, httpVars, analyticsVars, dashVars, smoke, pool, boot>>

\* time.time() moves on: by a minute and a second, or to the next day and a second
GeoTick ==
    /\ \E later \in {61, 24 * 60 * 60 + 1} :
          /\ geo.time < later
          /\ geo' = [geo EXCEPT !.time = later]
    /\ UNCHANGED <<parseVars, httpVars, analyticsVars, dashVars, smoke, pool, boot>>

SpecGeoip ==
    /\ Idle("geoip")
    /\ \E flag \in {<<NONE>>, <<>>, <<"1">>, <<" ", "TRUE", " ">>, <<"On">>, <<"0">>,
                    <<"maybe">>} :
       \E ttl \in {Unset, Num(1)} :
          geo = [Unused.geo EXCEPT !.ANALYTICS_GEOIP_ENABLED = flag,
                                   !.ANALYTICS_GEOIP_CACHE_TTL_SECONDS = ttl]
    /\ [][geoip_enrich \/ GeoTick]_vars

(***************************************************************************)
(* The specification of the smoke script: main() against a server that     *)
(* answers each request with a status and a body, or not at all.  An       *)
(* exception main does not catch ends the process with status 1.           *)
(***************************************************************************)
MaxSmokeForms == 2      \* form types of sorted(_form_mapping().keys()) in a run

\* what httpx raises when a request gets no response
TransportErrors == {"httpx.ConnectError", "httpx.ConnectTimeout", "httpx.ReadTimeout"}

\* main() ends with exception e: "except httpx.ConnectError" returns 2
Propagate(e) ==
    [smoke EXCEPT !.pc = "exited", !.raised = e,
                  !.exit = IF e = "httpx.ConnectError" THEN 2 ELSE 1]

smoke_health ==
    /\ smoke.pc = "health"
    /\ \E health \in {"200", "500"} \cup TransportErrors :
          smoke' = IF health \in TransportErrors THEN Propagate(health)
                   ELSE IF health = "500" THEN Propagate("httpx.HTTPStatusError")
                   ELSE [smoke EXCEPT !.pc = "forms"]
    /\ UNCHANGED <<parseVars, httpVars, analyticsVars, dashVars, geo, pool, boot>>

\* one turn of "for form_type in _get_form_types()"
smoke_form_type ==
    /\ smoke.pc = "forms"
    /\ smoke.done < MaxSmokeForms
    /\ LET form_type == <<"contact", "layouts", "login", "organization",
                          "organization-shared", "pets", "register", "self-contained",
                          "showcase", "user">>[smoke.done + 1]
           Fail(checks) ==
               [smoke EXCEPT !.done = @ + 1,
                             !.failures = @ \cup {<<form_type, c>> : c \in checks}]
       IN  \E schema_resp \in {"200", "200 no schema", "404", "500"} \cup TransportErrors :
           \E render_resp \in {"200", "200 short html", "500"} \cup TransportErrors :
           \E invalid_resp \in {"no payload", "200 errors", "200 success", "500"}
                               \cup TransportErrors :
           \E valid_resp \in {"no payload", "200 success", "200 errors", "500"}
                             \cup TransportErrors :
              LET invalid_failed ==
                      IF invalid_resp \in {"200 success", "500"} THEN {"invalid submit"}
                      ELSE {}
              IN  smoke' =
                     IF schema_resp \in TransportErrors THEN Propagate(schema_resp)
                     ELSE IF schema_resp = "404"
                     THEN [smoke EXCEPT !.done = @ + 1, !.skipped = @ \cup {form_type}]
                     ELSE IF schema_resp # "200" THEN Fail({"schema"})
                     ELSE IF render_resp \in TransportErrors THEN Propagate(render_resp)
                     ELSE IF render_resp # "200" THEN Fail({"render"})
                     ELSE IF invalid_resp \in TransportErrors THEN Propagate(invalid_resp)
                     ELSE IF valid_resp = "no payload"
                     THEN Fail(invalid_failed \cup {"payload"})
                     ELSE IF valid_resp \in TransportErrors THEN Propagate(valid_resp)
                     ELSE IF valid_resp # "200 success"
                     THEN Fail(invalid_failed \cup {"valid submit"})
                     ELSE Fail(invalid_failed)
    /\ UNCHANGED <<parseVars, httpVars, analyticsVars, dashVars, geo, pool, boot>>

\* after the loop: "if failures: return 1", else "return 0"
smoke_return ==
    /\ smoke.pc = "forms"
    /\ smoke.done = MaxSmokeForms
    /\ smoke' = [smoke EXCEPT !.pc = "exited",
                              !.exit = IF smoke.failures # {} THEN 1 ELSE 0]
    /\ UNCHANGED <<parseVars, httpVars, analyticsVars, dashVars, geo, pool, boot>>

SpecSmoke ==
    /\ Idle("smoke")
    /\ smoke = Unused.smoke
    /\ [][smoke_health \/ smoke_form_type \/ smoke_return]_vars

(***************************************************************************)
(* The specification of worker processes sharing one database.  Each       *)
(* worker makes one call of record_request or record_error with a          *)
(* connection of its own in autocommit: a statement is atomic, and between *)
(* two statements of one worker the others run theirs.  No statement fails.*)
(***************************************************************************)
MaxWorkers == 2

\* the statements of worker w's call, each a step of its own
worker_call(w) ==
    /\ UNCHANGED <<now, env, last_call, calls, ticks, parseVars, httpVars, dashVars,
                   geo, smoke, boot>>
    /\ \/ \* "with _connect() as conn: if _should_prune(conn):"
          /\ pool.workers[w].pc = "_should_prune"
          /\ pool' = [pool EXCEPT
                         !.workers[w].pc = IF _should_prune(db, now) THEN "_prune"
                                           ELSE "INSERT",
                         !.workers[w].read = db.last_prune_ts,
                         !.workers[w].at = now]
          /\ db' = db
       \/ \* "_prune(conn)"
          /\ pool.workers[w].pc = "_prune"
          /\ db' = _prune(db, now, env)
          /\ pool' = [pool EXCEPT !.workers[w].pc = "_set_last_prune",
                                  !.prunes = Append(@, [by |-> w, at |-> now])]
       \/ \* "_set_last_prune(conn)"
          /\ pool.workers[w].pc = "_set_last_prune"
          /\ db' = Execute(db, "_set_last_prune", now, env, 0)
          /\ pool' = [pool EXCEPT !.workers[w].pc = "INSERT"]
       \/ \* "conn.execute(INSERT INTO ...)"
          /\ pool.workers[w].pc = "INSERT"
          /\ db' = Execute(db, pool.workers[w].insert, now, env, 1)
          /\ pool' = [pool EXCEPT !.workers[w].pc = "returned"]

\* _utcnow() moves on by 10 minutes, to the microsecond or one more
WorkerTick ==
    /\ ticks < MaxTicks
    /\ \E us \in {0, 1} : now' = [m |-> now.m + 10, us |-> us]
    /\ ticks' = ticks + 1
    /\ UNCHANGED <<db, env, last_call, calls, pool, parseVars, httpVars, dashVars, geo,
                   smoke, boot>>

SpecWorkers ==
    /\ Idle("workers")
    /\ env = [ANALYTICS_RETENTION_DAYS |-> Unset, ANALYTICS_MAX_ROWS |-> Unset]
    /\ now = [m |-> 0, us |-> 0]
    \* a database no call has pruned yet, or one pruned just now
    /\ db \in {FreshDb, Requested(FreshDb, now, env, 1)}
    /\ last_call = NoCall
    /\ calls = 0
    /\ ticks = 0
    \* the odd workers call record_request, the even ones record_error
    /\ pool = [workers |-> [w \in 1..MaxWorkers |->
                               [pc |-> "_should_prune",
                                insert |-> IF w % 2 = 1 THEN "INSERT request_log"
                                           ELSE "INSERT error_log",
                                read |-> NoRow, at |-> now]],
               prunes |-> <<>>]
    /\ [][(\E w \in 1..MaxWorkers : worker_call(w)) \/ WorkerTick]_vars

(***************************************************************************)
(* The specification of startup: each worker runs init_db once, against a  *)
(* database file that another worker, or a process outside, can hold       *)
(* locked, and that can fail in other ways.  An exception is its type and   *)
(* the words of its message.                                               *)
(***************************************************************************)
MaxBootWorkers == 2
Attempts == 10          \* for attempt in range(10)

\* what the except clauses of init_db do with exception ex
init_db_except_any_OperationalError(ex) ==
    IF ex.type = "sqlite3.OperationalError" THEN "sleep" ELSE "return"

init_db_except(ex) ==
    IF ex.type = "sqlite3.OperationalError"
    THEN LET \* str(ex).lower()
             lowered == [i \in 1..Len(ex.message) |->
                            CASE ex.message[i] = "I/O" -> "i/o"
                              [] OTHER -> ex.message[i]]
         IN  \* "database is locked" not in ...
             IF \E i \in 1..(Len(lowered) - 2) :
                   SubSeq(lowered, i, i + 2) = <<"database", "is", "locked">>
             THEN "sleep"
             ELSE "return"
    ELSE "return"                       \* except Exception: return

\* the steps of init_db in worker w
init_db(w) ==
    /\ UNCHANGED <<parseVars, httpVars, analyticsVars, dashVars, geo, smoke, pool>>
    /\ \/ \* an attempt begins: _connect() and the first statement that writes
          /\ boot[w].pc = "try"
          /\ \E outcome \in
                 IF \E v \in DOMAIN boot : boot[v].pc = "creating"
                 THEN \* another worker holds the write lock past busy_timeout
                      {[type |-> "sqlite3.OperationalError",
                        message |-> <<"database", "is", "locked">>]}
                 ELSE {[type |-> "none", message |-> <<>>],
                       [type |-> "sqlite3.OperationalError",
                        message |-> <<"database", "is", "locked">>],
                       [type |-> "sqlite3.OperationalError",
                        message |-> <<"disk", "I/O", "error">>],
                       [type |-> "PermissionError", message |-> <<"Permission", "denied">>]} :
                boot' = [boot EXCEPT
                            ![w].attempt = @ + 1,
                            ![w].last = outcome,
                            ![w].pc = IF outcome.type = "none" THEN "creating"
                                      ELSE IF init_db_except(outcome) = "sleep"
                                      THEN "sleeping"
                                      ELSE "returned"]
       \/ \* the CREATE, _ensure_column and commit of the attempt are done: return
          /\ boot[w].pc = "creating"
          /\ boot' = [boot EXCEPT ![w].pc = "returned"]
       \/ \* time.sleep(0.05 * (attempt + 1)), in hundredths of a second, then
          \* the next turn of the loop or its end
          /\ boot[w].pc = "sleeping"
          /\ boot' = [boot EXCEPT
                         ![w].slept = 5 * boot[w].attempt,
                         ![w].pc = IF boot[w].attempt < Attempts THEN "try"
                                   ELSE "returned"]

\* every worker gets to run
SpecStartup ==
    /\ Idle("startup")
    /\ boot = [w \in 1..MaxBootWorkers |->
                  [pc |-> "try", attempt |-> 0, slept |-> 0,
                   last |-> [type |-> "none", message |-> <<>>]]]
    /\ [][\E w \in 1..MaxBootWorkers : init_db(w)]_vars
    /\ \A w \in 1..MaxBootWorkers : WF_vars(init_db(w))

ParseDone == parse_raised \/ parse_pos > Len(form_data)

(***************************************************************************)
(* Reading the nested structure back along a path: a name step needs a     *)
(* dict that has the key, an index step a list that is long enough.        *)
(***************************************************************************)
Missing == [k |-> "missing", v |-> 0]

RECURSIVE Lookup(_, _)
Lookup(node, tokens) ==
    IF tokens = <<>> THEN node
    ELSE LET t == Head(tokens)
         IN  IF IsIndex(t)
             THEN IF node.k = "list" /\ t.i < Len(node.v)
                  THEN Lookup(node.v[t.i + 1], Tail(tokens))
                  ELSE Missing
             ELSE IF node.k = "dict" /\ t \in DOMAIN node.v
                  THEN Lookup(node.v[t], Tail(tokens))
                  ELSE Missing

\* The path under which item i of form_data is to be found.
ItemPath(i) ==
    LET tokens == tokenize_path(form_data[i][1])
    IN  IF tokens = <<>> THEN <<NameTok(form_data[i][1])>> ELSE tokens

ItemHeld(i) == Lookup(result, ItemPath(i)) = convert_form_value(form_data[i][2])

IsPrefix(s, t) == Len(s) <= Len(t) /\ SubSeq(t, 1, Len(s)) = s

\* Two paths agree on the kind of step (name or index) where they part.
SameKindWhereTheyPart(s, t) ==
    \A p \in 1..Len(s) :
        (p <= Len(t) /\ SubSeq(s, 1, p - 1) = SubSeq(t, 1, p - 1) /\ s[p] # t[p])
            => (IsIndex(s[p]) <=> IsIndex(t[p]))

\* The keys of form_data name paths that can live in one structure: every
\* path starts with a name, no path is another key's path or a prefix of it,
\* and two paths part at steps of the same kind.
PathsConsistent ==
    /\ \A a \in 1..Len(form_data) : ~IsIndex(ItemPath(a)[1])
    /\ \A a, b \in 1..Len(form_data) :
           a # b => /\ ~IsPrefix(ItemPath(a), ItemPath(b))
                    /\ SameKindWhereTheyPart(ItemPath(a), ItemPath(b))

\* A key of the shapes C1 speaks of: a name, then any .name and [index] steps.
OfClaimedShape(a) ==
    LET tokens == tokenize_path(form_data[a][1])
    IN  tokens # <<>> /\ ~IsIndex(tokens[1])

PayloadValidates(form_class, body) ==
    /\ body.mapping
    /\ parse_nested_form_data(body).k # "raise"
    /\ validate_form_data(form_class, parse_nested_form_data(body)).is_valid

SubmitServed(app) ==
    /\ http_req.app = app
    /\ http_req.handler = "api_submit_form"
    /\ http_req.body.json

\* C2 POST /api/forms/{form_type}/submit of src/main.py, for every key of
\* _form_mapping and every JSON payload, answers 200; with success false,
\* errors non-empty and data null when the payload fails validation (a JSON
\* value that is no mapping, or keys that cannot be parsed, included), and
\* with success true, data non-null and errors empty when it validates.
C2_SubmitContract ==
    (SubmitServed("main") /\ http_req.form_type \in DOMAIN _form_mapping) =>
        /\ http_resp.status = 200
        /\ IF PayloadValidates(_form_mapping[http_req.form_type], http_req.body)
           THEN /\ http_resp.success
                /\ http_resp.data \notin {None, Absent}
           ELSE /\ ~http_resp.success
                /\ Truthy(http_resp.errors)
                /\ http_resp.data = None
        /\ http_resp.success => ~Truthy(http_resp.errors)

\* C2 witness: a registration whose passwords differ was refused, and the
\* answer names confirm_password.
C2_Witness ==
    /\ SubmitServed("main")
    /\ http_req.form_type = "register"
    /\ http_req.body.mapping
    /\ Len(http_req.body.items) = Len(RequiredFields("UserRegistrationForm"))
    /\ http_resp.status = 200
    /\ ~http_resp.success
    /\ http_resp.data = None
    /\ DOMAIN http_resp.errors.v = {Field("confirm_password")}

HtmlPosted ==
    /\ http_req.app = "main"
    /\ http_req.handler = "html_post"
    /\ http_resp.status = 200

\* The page shows the form of form_class again, with the errors of the
\* validation and the values of the body.
ReRendered(form_class, body) ==
    /\ http_resp.page \in {"form.html", "self-contained"}
    /\ http_resp.form_class = form_class
    /\ http_resp.errors =
          handle_form_submission(form_class, body).errors
    /\ http_resp.form_data \in {FormDict(body), parse_nested_form_data(body)}

\* C3 as the claim states it: every HTML form POST route answers a
\* submission that fails validation with the same form, the validation
\* errors and the submitted values, and one that validates with the
\* success page.  POST /self-contained with a failing submission
\* contradicts it.
C3_AsStated ==
    HtmlPosted =>
        IF PayloadValidates(RouteClass(http_req.form_type), http_req.body)
        THEN http_resp.page = "success.html"
        ELSE ReRendered(RouteClass(http_req.form_type), http_req.body)

\* C3 witness of the divergence: POST /self-contained with a body that
\* lacks a required field is answered with the self-contained page showing
\* no error and no submitted value.
C3_SelfContainedDropsErrors ==
    /\ HtmlPosted
    /\ http_req.form_type = "self-contained"
    /\ http_req.body.items # <<>>
    /\ ~PayloadValidates("UserRegistrationForm", http_req.body)
    /\ http_resp.page = "self-contained"
    /\ http_resp.errors = EmptyDict
    /\ http_resp.form_data = EmptyDict

ApiServed ==
    http_req.handler \in {"api_form_schema", "api_render_form", "api_submit_form"}

\* The mapping the application of the request consults.
FormMappingOf(app) == IF app = "main" THEN _form_mapping ELSE FORM_REGISTRY

Recorded == last_call.fn \in {"record_request", "record_error"}

\* C4: record_request and record_error never raise: whatever statement fails
\* inside the call, and with whatever exception, the call returns normally.
C4_NeverRaises == Recorded => last_call.outcome = "returned"

\* A request was being recorded, the prune had been done, and the INSERT
\* failed on a bad argument; a GeoIP lookup failed.
C4_Witness ==
    /\ last_call.fn = "record_request"
    /\ last_call.failing = "INSERT request_log"
    /\ last_call.exception = "ValueError"
    /\ last_call.pruned
    /\ last_call.outcome = "returned"
    /\ db.request_seq = last_call.before.request_seq

\* One clock reading is before another.
TimeBefore(a, b) == a.m < b.m \/ (a.m = b.m /\ a.us < b.us)

\* The current time of the latest call minus get_retention_days() days.
Cutoff == Earlier(last_call.at, get_retention_days(env) * Day)

TooOld(row) == TimeBefore(fromisoformat(row.ts), Cutoff)
NoneTooOld(table) == \A i \in 1..Len(table) : ~TooOld(table[i])
AtOrAfterCutoff(table) == SelectSeq(table, LAMBDA row : ~TooOld(row))

\* The k rows of a table with the highest ids.
RECURSIVE LastRows(_, _)
LastRows(table, k) ==
    IF k <= 0 \/ table = <<>> THEN <<>>
    ELSE IF table[Len(table)].hi - table[Len(table)].lo + 1 >= k
    THEN <<[table[Len(table)] EXCEPT !.lo = table[Len(table)].hi - k + 1]>>
    ELSE LastRows(SubSeq(table, 1, Len(table) - 1),
                  k - (table[Len(table)].hi - table[Len(table)].lo + 1))
         \o <<table[Len(table)]>>

LogTables == {"request_log", "error_log"}

\* C5: after _prune has run, neither table holds a row older than the
\* current time minus get_retention_days() days, and the rows at or after
\* that cutoff are all still there, or the newest get_max_rows() of them
\* when the trim removed rows.
C5_RetentionPruned ==
    last_call.pruned =>
        \A name \in LogTables :
            /\ NoneTooOld(last_call.after_prune[name])
            /\ NoneTooOld(db[name])
            /\ last_call.after_prune[name] =
                  IF Count(AtOrAfterCutoff(last_call.before[name])) <= get_max_rows(env)
                  THEN AtOrAfterCutoff(last_call.before[name])
                  ELSE LastRows(AtOrAfterCutoff(last_call.before[name]), get_max_rows(env))

\* A prune that deleted a row older than the cutoff from each table and
\* kept a newer one.
C5_Witness ==
    /\ last_call.pruned
    /\ \A name \in LogTables :
         /\ \E i \in 1..Len(last_call.before[name]) : TooOld(last_call.before[name][i])
         /\ last_call.after_prune[name] # <<>>
         /\ Count(last_call.after_prune[name]) < Count(last_call.before[name])

\* C6 as the specification states it: after any calls, a traffic spike
\* among them, each table holds at most get_max_rows() rows.
C6_AsStated ==
    Recorded =>
        /\ Count(db.request_log) <= get_max_rows(env)
        /\ Count(db.error_log) <= get_max_rows(env)

\* C6: each table holds at most get_max_rows() rows when _prune has run to
\* its end; the rows inserted since, the pruning call's own among them,
\* come on top of that.
C6_BoundedAfterPrune ==
    last_call.pruned =>
        /\ Count(last_call.after_prune.request_log) <= get_max_rows(env)
        /\ Count(last_call.after_prune.error_log) <= get_max_rows(env)
        /\ Count(db.request_log) <=
              get_max_rows(env) + (db.request_seq - last_call.before.request_seq)
        /\ Count(db.error_log) <=
              get_max_rows(env) + (db.error_seq - last_call.before.error_seq)

\* A prune found both tables over the bound after a spike and trimmed them
\* to it; with the call's row the table is again over the bound.
C6_Witness ==
    /\ last_call.pruned
    /\ Count(last_call.before.request_log) > get_max_rows(env)
    /\ Count(last_call.before.error_log) > get_max_rows(env)
    /\ Count(last_call.after_prune.request_log) = get_max_rows(env)
    /\ Count(last_call.after_prune.error_log) = get_max_rows(env)
    /\ Count(db.request_log) = get_max_rows(env) + 1

(***************************************************************************)
(* The dashboard token: the properties of SpecDash.                        *)
(***************************************************************************)
DashServed == dash_req # NoDashRequest
Required == _dashboard_token_required(dash_env)

\* What each carrier of the request holds, without the blanks around it.
InHeader == OrEmptyStrip(dash_req.header)
InQuery == OrEmptyStrip(QueryGet(dash_req.query, "token"))
InCookie == OrEmptyStrip(dash_req.cookie)

CarriesNowhere ==
    /\ Required # NONE
    /\ InHeader # Required
    /\ InQuery # Required
    /\ InCookie # Required

\* C7 as the specification states it: a request that carries the required
\* token nowhere is answered 401 and the logs are left as they were.
C7_AsStated ==
    (DashServed /\ CarriesNowhere) =>
        /\ dash_resp.status = 401
        /\ db = dash_req.db

\* C7: a request that carries the required token nowhere is answered 401
\* with no data and no cookie, and its handler leaves the logs as they were:
\* the one change is the row analytics_middleware records for the request,
\* with the prune that call does when one is due.  When DASHBOARD_TOKEN is
\* unset or blank no request is answered 401.
C7_DeniedWithoutToken ==
    /\ (DashServed /\ CarriesNowhere) =>
          /\ dash_resp = Unauthorized
          /\ last_call.before = dash_req.db
          /\ db \in {dash_req.db, Requested(dash_req.db, now, env, 1)}
    /\ (DashServed /\ Required = NONE) => dash_resp.status = 200

\* A purge with a wrong token on a log that holds a row, and a request for
\* the dashboard when no token is required.
C7_Witness ==
    /\ dash_req.handler = "api_analytics_purge"
    /\ CarriesNowhere
    /\ InHeader = "bad"
    /\ dash_req.db.request_log # <<>>
    /\ dash_resp.status = 401
    /\ Count(db.request_log) = Count(dash_req.db.request_log) + 1

\* C8 as the specification states it: with a token required, a request with
\* at least one carrier equal to the token is allowed, whatever the other
\* two carry.
C8_AsStated ==
    (DashServed /\ Required # NONE
        /\ (InHeader = Required \/ InQuery = Required \/ InCookie = Required)) =>
        dash_resp.status # 401

\* The token is in the query and a different text is in the header: the
\* request is refused.
C8_HeaderShadowsQuery ==
    /\ dash_req.handler = "api_analytics_summary"
    /\ Required = "tok"
    /\ InHeader = "bad"
    /\ InQuery = "tok"
    /\ dash_resp.status = 401

\* The parameters a URL's query text holds: the text is cut at each "&",
\* each part at its first "=".
RECURSIVE SplitAtAmp(_, _)
SplitAtAmp(text, part) ==
    IF text = <<>> THEN <<part>>
    ELSE IF Head(text) = "&" THEN <<part>> \o SplitAtAmp(Tail(text), <<>>)
    ELSE SplitAtAmp(Tail(text), Append(part, Head(text)))

ParamsOf(text) == IF text = <<>> THEN <<>> ELSE SplitAtAmp(text, <<>>)
HasParam(text, key) ==
    \E i \in 1..Len(ParamsOf(text)) :
        ParamsOf(text)[i] # <<>> /\ ParamsOf(text)[i][1] = key

\* The other non-empty parameters of the request, each as key, "=", value.
OtherParams ==
    SelectSeq(dash_req.query, LAMBDA p : p[1] # "token" /\ p[2] # "")
AsParts(params) == [i \in 1..Len(params) |-> <<params[i][1], "=">> \o Pieces(params[i][2])]

Presented == _token_from_request(dash_req)

\* C9 as the specification states it: GET /dashboard presenting the
\* required token answers 303 to /dashboard followed only by the other
\* non-empty parameters, never the token parameter, and sets the cookie
\* (HttpOnly, value the token, max-age the TTL); presenting another token it
\* answers 401 and sets no cookie.
C9_AsStated ==
    (dash_req.handler = "dashboard" /\ Required # NONE /\ Presented # "") =>
        IF Presented = Required
        THEN /\ dash_resp.status = 303
             /\ dash_resp.location.path = "/dashboard"
             /\ ParamsOf(dash_resp.location.query) = AsParts(OtherParams)
             /\ ~HasParam(dash_resp.location.query, "token")
             /\ dash_resp.set_cookie =
                   [key |-> _dashboard_cookie_name, value |-> Required,
                    max_age |-> _dashboard_cookie_ttl_seconds(dash_env),
                    httponly |-> TRUE]
        ELSE /\ dash_resp.status = 401
             /\ dash_resp.set_cookie = NoCookie

\* The redirect of a request whose other parameter holds "&token=tok": the
\* Location has the token parameter.
C9_TokenInLocation ==
    /\ dash_req.handler = "dashboard"
    /\ Presented = Required
    /\ dash_resp.status = 303
    /\ HasParam(dash_resp.location.query, "token")

(***************************************************************************)
(* The HTML routes and _form_mapping.                                      *)
(***************************************************************************)
\* An HTML route of src/main.py answered with a page of a form class.
HtmlServed ==
    /\ http_req.app = "main"
    /\ http_req.handler \in {"html_get", "html_post"}
    /\ http_resp.status = 200

\* C11 as the specification states it: for every key of _form_mapping with
\* an HTML route, the class the GET route renders and the POST route
\* validates against is the class _form_mapping gives for the key.
C11_AsStated ==
    (HtmlServed /\ http_req.form_type \in DOMAIN _form_mapping) =>
        http_resp.form_class = _form_mapping[http_req.form_type]

\* POST /organization accepts an empty form as a valid ComprehensiveTabbedForm
\* while the mapping, and with it the API, holds CompanyOrganizationForm for
\* "organization", which the same payload fails.
C11_OrganizationOtherClass ==
    /\ HtmlServed
    /\ http_req.handler = "html_post"
    /\ http_req.form_type = "organization"
    /\ http_resp.success
    /\ http_resp.form_class = "ComprehensiveTabbedForm"
    /\ _form_mapping["organization"] = "CompanyOrganizationForm"
    /\ ~handle_form_submission(_form_mapping["organization"], http_req.body).success

(***************************************************************************)
(* handle_form_submission as a function of any payload.                    *)
(***************************************************************************)
FormClasses == {RouteClass(form_type) : form_type \in FormTypes}

\* The result reports a failure under the key "form".
FormError(res, message) ==
    /\ res.k = "dict"
    /\ ~res.success
    /\ res.data = Absent
    /\ res.errors = Dict([f \in {Field("form")} |-> Str(message)])

FlagOn ==
    geo.ANALYTICS_GEOIP_ENABLED \in {<<"1">>, <<" ", "TRUE", " ">>, <<"On">>}

GlobalAddresses == {<<"8.8.8.8">>, <<"2001:4860:4860::8888">>}

\* C13 geoip_enrich is opt-in only: it asks ipapi.co only when
\* ANALYTICS_GEOIP_ENABLED is truthy and the normalized client IP is a
\* global address, and then about that address; in every other case it
\* returns None, asks nothing and leaves _geoip_cache as it was.
C13_OptInOnly ==
    geo.call.made =>
        /\ geo.call.lookup # <<NONE>> =>
              /\ FlagOn
              /\ _normalize_ip(geo.call.client_ip) \in GlobalAddresses
              /\ geo.call.lookup = _normalize_ip(geo.call.client_ip)
        /\ ~(FlagOn /\ _normalize_ip(geo.call.client_ip) \in GlobalAddresses) =>
              /\ geo.call.value = NONE
              /\ geo.call.lookup = <<NONE>>
              /\ geo.cache = geo.call.cache_before

\* C13 witness: with the flag written " TRUE " and a location already cached,
\* a call for the private address 10.0.0.1 returned None, asked nothing and
\* left the cache alone.
C13_Witness ==
    /\ geo.call.made
    /\ geo.ANALYTICS_GEOIP_ENABLED = <<" ", "TRUE", " ">>
    /\ geo.call.client_ip = <<"10.0.0.1">>
    /\ geo.call.cache_before # {}
    /\ geo.call.value = NONE
    /\ geo.call.lookup = <<NONE>>
    /\ geo.cache = geo.call.cache_before

(***************************************************************************)
(* C14                                                                     *)
(***************************************************************************)
\* no connection to the server could be made: refused, or not answered in time
Unreachable == smoke.raised \in {"httpx.ConnectError", "httpx.ConnectTimeout"}

\* C14 as the specification states it: the smoke script exits with 0 exactly
\* when every check of every form type passed, with 1 when a check failed,
\* and with 2 when the server is unreachable; a form type whose schema
\* endpoint answers 404 is skipped and is no failure.
C14_AsStated ==
    smoke.pc = "exited" =>
        /\ smoke.exit = 0 <=> (smoke.raised = "none" /\ smoke.failures = {})
        /\ (smoke.raised = "none" /\ smoke.failures # {}) => smoke.exit = 1
        /\ Unreachable => smoke.exit = 2
        /\ \A f \in smoke.failures : f[1] \notin smoke.skipped

\* C14 witness of the divergence: the server did not answer the connection
\* of the health request within the connect timeout, no check was made, and
\* the script ended with status 1, not 2.
C14_TimeoutExitsOne ==
    /\ smoke.pc = "exited"
    /\ smoke.raised = "httpx.ConnectTimeout"
    /\ smoke.done = 0
    /\ smoke.failures = {}
    /\ smoke.exit = 1

(***************************************************************************)
(* C16                                                                     *)
(***************************************************************************)
\* The rows of a table the retention delete of the latest call left.
AfterRetentionDelete(name) == AtOrAfterCutoff(last_call.before[name])

\* The rows of a table with id at least first.
RowsFrom(table, first) ==
    SelectSeq([i \in 1..Len(table) |->
                  [table[i] EXCEPT !.lo = IF @ >= first THEN @ ELSE first]],
              LAMBDA row : row.lo <= row.hi)

\* C16 when a table holds more than get_max_rows() rows after the retention
\* delete, _prune deletes exactly (count - max_rows) rows, those with the
\* smallest ids, and the max_rows rows with the largest ids remain; a table
\* at or under the limit is left as the retention delete left it.
C16_TrimOldest ==
    last_call.pruned =>
        \A name \in LogTables :
            IF Count(AfterRetentionDelete(name)) > get_max_rows(env)
            THEN \* count - max_rows rows are gone
                 /\ Count(last_call.after_prune[name]) = get_max_rows(env)
                 \* every row from the smallest id kept upwards is kept
                 /\ last_call.after_prune[name] =
                       RowsFrom(AfterRetentionDelete(name),
                                last_call.after_prune[name][1].lo)
            ELSE last_call.after_prune[name] = AfterRetentionDelete(name)

\* C16 witness: the retention delete removed rows of request_log and left
\* more than get_max_rows(); the trim removed the rows with the smallest ids
\* down to get_max_rows().
C16_Witness ==
    /\ last_call.pruned
    /\ Count(AfterRetentionDelete("request_log")) < Count(last_call.before.request_log)
    /\ Count(AfterRetentionDelete("request_log")) > get_max_rows(env)
    /\ Count(last_call.after_prune.request_log) = get_max_rows(env)
    /\ last_call.after_prune.request_log[1].lo
          = AfterRetentionDelete("request_log")[1].lo
            + Count(AfterRetentionDelete("request_log")) - get_max_rows(env)

(***************************************************************************)
(* C15                                                                     *)
(***************************************************************************)
\* time b is more than 10 minutes after time a
MoreThanTenMinutesAfter(a, b) == b.m - a.m > 10 \/ (b.m - a.m = 10 /\ b.us > a.us)

\* C15 as the specification states it: across any interleaving of
\* record_request and record_error calls by workers that share one
\* database, two executions of _prune are more than 10 minutes apart, and a
\* call prunes exactly when meta holds no last_prune_ts or the stored one is
\* more than 10 minutes old.
C15_AsStated ==
    /\ \A i, j \in 1..Len(pool.prunes) :
          i < j => MoreThanTenMinutesAfter(pool.prunes[i].at, pool.prunes[j].at)
    /\ \A w \in 1..Len(pool.workers) :
          pool.workers[w].pc # "_should_prune" =>
             ((\E i \in 1..Len(pool.prunes) : pool.prunes[i].by = w)
                 \/ pool.workers[w].pc = "_prune")
             <=> \/ pool.workers[w].read = NoRow
                 \/ MoreThanTenMinutesAfter(fromisoformat(pool.workers[w].read),
                                            pool.workers[w].at)

\* C15 witness of the divergence: two workers found last_prune_ts absent
\* before either had written it, and both ran _prune at the same time.
C15_TwoPrunesAtOnce ==
    /\ Len(pool.prunes) = 2
    /\ pool.prunes[1].by # pool.prunes[2].by
    /\ pool.prunes[1].at = pool.prunes[2].at
    /\ \A w \in 1..2 : pool.workers[w].read = NoRow

(***************************************************************************)
(* C17                                                                     *)
(***************************************************************************)
Locked(ex) ==
    /\ ex.type = "sqlite3.OperationalError"
    /\ ex.message = <<"database", "is", "locked">>

\* C17 init_db always terminates and never raises, also when workers race:
\* a worker makes at most 10 attempts, sleeps and retries only after an
\* OperationalError saying "database is locked", each sleep longer than the
\* one before, and returns on the first success or on any other exception;
\* in the end every worker has returned.
C17_InitDbTerminates ==
    /\ [](\A w \in DOMAIN boot :
             /\ boot[w].pc \in {"try", "creating", "sleeping", "returned"}
             /\ boot[w].attempt <= 10
             /\ boot[w].pc = "sleeping" => Locked(boot[w].last)
             /\ (boot[w].pc = "try" /\ boot[w].attempt > 0) =>
                   /\ Locked(boot[w].last)
                   /\ boot[w].slept = 5 * boot[w].attempt
             /\ (boot[w].attempt > 0 /\ ~Locked(boot[w].last)) =>
                   boot[w].pc \in {"creating", "returned"}
             /\ (boot[w].pc = "returned" /\ Locked(boot[w].last)) =>
                   boot[w].attempt = 10)
    /\ <>[](\A w \in DOMAIN boot : boot[w].pc = "returned")

\* C17 witness: one worker created the tables at its first attempt; the
\* other found the database locked ten times, slept after each and returned.
C17_Witness ==
    /\ boot[1].pc = "returned"
    /\ boot[1].attempt = 1
    /\ boot[1].last.type = "none"
    /\ boot[2].pc = "returned"
    /\ boot[2].attempt = 10
    /\ Locked(boot[2].last)
    /\ boot[2].slept = 50

====
